---- MODULE Spec2Model ----
(***************************************************************************)
(* A model of lambdamoo_db: the LambdaMOO / ToastStunt database codec.     *)
(*                                                                         *)
(* A file is a sequence of lines; a line is the sequence of its            *)
(* blank-separated tokens (strings).  "#" and ":" stand alone as tokens in *)
(* object-number and verb-key lines ("#5:0" is <<"#","5",":","0">>).       *)
(* Python values are records [t, i, s, xs]: t is the Python type, i the    *)
(* integer payload, s the text payload (a line), xs the elements of a list *)
(* or the flattened key,value,... entries of a dict.                       *)
(***************************************************************************)
EXTENDS Integers, Sequences, FiniteSets, TLC

VARIABLES
    file,     \* the lines of the file given to load
    line,     \* Reader.line, the number of lines consumed
    db,       \* the MooDatabase
    pc,       \* the position of the program
    err,      \* the exception that ended load or the last property call
    out,      \* the lines the Writer has written to its sink
    werr,     \* the exception that ended dump
    db1,      \* the database the first load returned
    ret,      \* the value returned by the last call
    last,     \* the last property call: its name and arguments
    before,   \* db.objects before the last property call
    nops,     \* the number of property calls made
    val,      \* the value handed to writeValue
    phase     \* 1 for the load of the given file, 2 for the load of the dumped text

vars == <<file, line, db, pc, err, out, werr, db1, ret, last, before, nops, val, phase>>

(***************************************************************************)
(* Bounds of the model.                                                    *)
(***************************************************************************)
\* the small integers are -MaxNeg .. MaxInt
MaxNeg == 3
MaxInt == 14

\* the integers whose decimal form the model knows: the small range (it holds
\* the type tags 0..14) and the literals of the program (the -111 sentinel,
\* version 17 and a neighbour, the waif bound 96)
IntDom == (-MaxNeg .. MaxInt) \cup {-111, 17, 18, 96}

(***************************************************************************)
(* enums.py                                                                *)
(***************************************************************************)
INT == 0
OBJ == 1
STR == 2
ERR == 3
LIST == 4
CLEAR == 5
NONE == 6
CATCH == 7
FINALLY == 8
FLOAT == 9
MAP == 10
ANON == 12
WAIF == 13
BOOL == 14

DBV_Float == 3
DBV_TaskLocal == 6
DBV_This == 11
DBV_Anon == 13
DBV_Last_Move == 15
DBV_Threaded == 16

(***************************************************************************)
(* Python values                                                           *)
(***************************************************************************)
PyVal(t, i, s, xs) == [t |-> t, i |-> i, s |-> s, xs |-> xs]
IntV(i) == PyVal("int", i, <<>>, <<>>)
StrV(s) == PyVal("str", 0, s, <<>>)
ObjNum(i) == PyVal("ObjNum", i, <<>>, <<>>)
Err(i) == PyVal("Err", i, <<>>, <<>>)
Anon(i) == PyVal("Anon", i, <<>>, <<>>)
_Catch(i) == PyVal("_Catch", i, <<>>, <<>>)
BoolV(b) == PyVal("bool", IF b THEN 1 ELSE 0, <<>>, <<>>)
FloatV(s) == PyVal("float", 0, s, <<>>)
ListV(xs) == PyVal("list", 0, <<>>, xs)
DictV(kvs) == PyVal("dict", 0, <<>>, kvs)
NoneV == PyVal("NoneType", 0, <<>>, <<>>)
\* an instance Clear()
ClearV == PyVal("Clear", 0, <<>>, <<>>)
\* the class object Clear itself (type(Clear) is type)
ClearClass == PyVal("type", 0, <<>>, <<>>)
WaifReference(i) == PyVal("WaifReference", i, <<>>, <<>>)

\* the subclasses of int: they format with :d and compare by number
IntLike == {"int", "ObjNum", "Err", "Anon", "_Catch", "bool"}

\* key equality of a dict: numbers by value, str by text, None is None;
\* every other object is equal to itself only (two Clear() are two objects)
PyEq(a, b) ==
    \/ a.t \in IntLike /\ b.t \in IntLike /\ a.i = b.i
    \/ a.t = "str" /\ b.t = "str" /\ a.s = b.s
    \/ a.t = "NoneType" /\ b.t = "NoneType"

\* list, dict and attrs classes with eq (WaifReference) are unhashable
PyHashable(k) == k.t \notin {"list", "dict", "WaifReference"}

\* d[k] = v on an insertion-ordered dict given as k1,v1,k2,v2,...
DictSet(kvs, k, v) ==
    IF \E j \in 1 .. (Len(kvs) \div 2) : PyEq(kvs[2 * j - 1], k)
    THEN [n \in 1 .. Len(kvs) |->
            IF n % 2 = 0 /\ PyEq(kvs[n - 1], k) THEN v ELSE kvs[n]]
    ELSE kvs \o <<k, v>>

(***************************************************************************)
(* Decimal text of integers: f"{i:d}" and int(s)                           *)
(***************************************************************************)
FmtInt(i) == ToString(i)

IsIntTok(tok) == \E i \in IntDom : FmtInt(i) = tok
IntOfTok(tok) == CHOOSE i \in IntDom : FmtInt(i) = tok

\* int(line): the line is one decimal integer
IsIntLine(s) == Len(s) = 1 /\ IsIntTok(s[1])

\* str(v), as f"{v}" and str.format("{v}") print it
RECURSIVE PyStr(_)
RECURSIVE PyStrAll(_, _)
PyStrAll(xs, n) ==
    IF n > Len(xs) THEN <<>>
    ELSE PyStr(xs[n]) \o (IF n < Len(xs) THEN <<",">> ELSE <<>>) \o PyStrAll(xs, n + 1)
PyStr(v) ==
    CASE v.t = "bool" -> IF v.i = 1 THEN <<"True">> ELSE <<"False">>
      [] v.t \in IntLike \ {"bool"} -> <<FmtInt(v.i)>>
      [] v.t = "str" -> v.s
      [] v.t = "float" -> v.s
      [] v.t = "NoneType" -> <<"None">>
      [] v.t = "list" -> <<"[">> \o PyStrAll(v.xs, 1) \o <<"]">>
      [] v.t = "dict" -> <<"{">> \o PyStrAll(v.xs, 1) \o <<"}">>
      [] OTHER -> <<"<", v.t, ">">>

(***************************************************************************)
(* Errors                                                                  *)
(***************************************************************************)
NoErr == [kind |-> "", msg |-> "", line |-> -1]
\* an exception other than Reader.parse_error: it carries no line
PyErr(kind) == [kind |-> kind, msg |-> "", line |-> -1]
Failed(e) == e.kind # ""

(***************************************************************************)
(* reader.py: the Reader, its line counter and the value codec             *)
(***************************************************************************)
\* a Reader over the lines f that has consumed ln lines, with the database d
\* its methods are handed; val is the value the last method returned
Reader(f, ln, d) ==
    [f |-> f, line |-> ln, err |-> NoErr, val |-> NoneV, db |-> d]

raise(r, kind) == [r EXCEPT !.err = PyErr(kind)]

\* the element of a singleton: Only({ e : x \in {v} }) is e with x bound to
\* v, the way the source binds the result of a call to a local variable.
\* Nested bindings read from the innermost (last) line outwards.
Only(S) == CHOOSE x \in S : TRUE

parse_error(r, message) ==
    [r EXCEPT !.err = [kind |-> "ParseError", msg |-> message, line |-> r.line]]

\* readline() gives "" at the end of the file
readString(r) ==
    IF Failed(r.err) THEN r
    ELSE [r EXCEPT !.line = @ + 1,
                   !.val = StrV(IF r.line + 1 <= Len(r.f) THEN r.f[r.line + 1] ELSE <<>>)]

readInt(r) ==
    LET r1 == readString(r) IN
    IF Failed(r1.err) THEN r1
    ELSE IF IsIntLine(r1.val.s) THEN [r1 EXCEPT !.val = IntV(IntOfTok(r1.val.s[1]))]
    ELSE raise(r1, "ValueError")

readErr(r) ==
    LET r1 == readInt(r) IN
    IF Failed(r1.err) THEN r1 ELSE [r1 EXCEPT !.val = Err(r1.val.i)]

FloatToks == {"1.5"}
readFloat(r) ==
    LET r1 == readString(r) IN
    IF Failed(r1.err) THEN r1
    ELSE IF Len(r1.val.s) = 1 /\ (IsIntTok(r1.val.s[1]) \/ r1.val.s[1] \in FloatToks)
         THEN [r1 EXCEPT !.val = FloatV(r1.val.s)]
    ELSE raise(r1, "ValueError")

readObjnum(r) ==
    LET r1 == readString(r) IN
    IF Failed(r1.err) THEN r1
    ELSE IF IsIntLine(r1.val.s) THEN [r1 EXCEPT !.val = ObjNum(IntOfTok(r1.val.s[1]))]
    ELSE raise(r1, "ValueError")

readBool(r) ==
    LET r1 == readInt(r) IN
    IF Failed(r1.err) THEN r1 ELSE [r1 EXCEPT !.val = BoolV(r1.val.i # 0)]

readAnon(r) ==
    LET r1 == readInt(r) IN
    IF Failed(r1.err) THEN r1
    ELSE IF r1.val.i = -1 THEN parse_error(r1, "Not sure what to do with a -1 anon yet")
    ELSE [r1 EXCEPT !.val = Anon(r1.val.i)]

\* waif_header = "{flag:l} {index:d}"
MatchWaifHeader(s) == Len(s) = 2 /\ s[1] \in {"c", "r", "x"} /\ IsIntTok(s[2])

\* database.py: the attrs class Waif has the four fields
\* waif_class, owner, prop_indexes, props, all of them required by __init__
WaifFields == 4
Waif(args) ==
    IF Len(args) = WaifFields
    THEN [ok |-> TRUE, waif_class |-> args[1], owner |-> args[2],
          prop_indexes |-> args[3], props |-> args[4]]
    ELSE [ok |-> FALSE, waif_class |-> NoneV, owner |-> NoneV,
          prop_indexes |-> NoneV, props |-> NoneV]

\* db.waifs[index] = new on the dict given as a sequence of [index, waif]
WaifsSet(waifs, index, w) ==
    IF \E j \in 1 .. Len(waifs) : waifs[j].index = index
    THEN [j \in 1 .. Len(waifs) |->
            IF waifs[j].index = index THEN [index |-> index, waif |-> w] ELSE waifs[j]]
    ELSE Append(waifs, [index |-> index, waif |-> w])

RECURSIVE readValue(_, _)
RECURSIVE readList(_)
RECURSIVE readListItems(_, _, _)
RECURSIVE readMap(_)
RECURSIVE readMapItems(_, _, _)
RECURSIVE readWaif(_)
RECURSIVE readWaifProps(_, _)

\* for _ in range(n): result.append(self.readValue(db))
readListItems(r, n, result) ==
    LET append(r1) == readListItems(r1, n - 1, Append(result, r1.val)) IN
    IF Failed(r.err) THEN r
    ELSE IF n <= 0 THEN [r EXCEPT !.val = ListV(result)]
    ELSE append(readValue(r, NoneV))

readList(r) ==
    LET r1 == readInt(r) IN
    IF Failed(r1.err) THEN r1 ELSE readListItems(r1, r1.val.i, <<>>)

\* for _ in range(n): key = readValue; val = readValue; map[key] = val
readMapItems(r, n, map) ==
    LET set(key, r2) ==
            IF Failed(r2.err) THEN r2
            ELSE IF ~PyHashable(key) THEN raise(r2, "TypeError")
            ELSE readMapItems(r2, n - 1, DictSet(map, key, r2.val))
        value(r1) == set(r1.val, readValue(r1, NoneV))
    IN  IF Failed(r.err) THEN r
        ELSE IF n <= 0 THEN [r EXCEPT !.val = DictV(map)]
        ELSE value(readValue(r, NoneV))

readMap(r) ==
    LET r1 == readInt(r) IN
    IF Failed(r1.err) THEN r1 ELSE readMapItems(r1, r1.val.i, <<>>)

\* while (cur := self.readInt()) < 3 * 32 and cur > -1:
\*     props.append(self.readValue(db))
readWaifProps(r, props) ==
    LET append(r2) == IF Failed(r2.err) THEN r2 ELSE readWaifProps(r2, Append(props, r2.val))
        r1 == readInt(r)
    IN  IF Failed(r1.err) THEN r1
        ELSE IF r1.val.i < 3 * 32 /\ r1.val.i > -1 THEN append(readValue(r1, NoneV))
        ELSE [r1 EXCEPT !.val = ListV(props)]

readWaif(r) ==
    LET h == readString(r)
        index == IntOfTok(h.val.s[2])
        \* the props read into the list that db.waifs[index] holds, and the terminator
        stored(new, rp) ==
            IF Failed(rp.err) THEN rp
            ELSE [readString(rp) EXCEPT
                    !.db.waifs = WaifsSet(rp.db.waifs, index, [new EXCEPT !.props = rp.val.xs]),
                    !.val = WaifReference(index)]
        \* propdefs_length = self.readInt(); db.waifs[index] = new
        body(new, rn) ==
            IF Failed(rn.err) THEN rn
            ELSE stored(new, readWaifProps(
                          [rn EXCEPT !.db.waifs = WaifsSet(rn.db.waifs, index, new)], <<>>))
        \* new = Waif(_class, owner, props)
        create(new, ro) ==
            IF Failed(ro.err) THEN ro
            ELSE IF ~new.ok THEN raise(ro, "TypeError")
            ELSE body(new, readInt(ro))
        rc == readObjnum(h)
        ro == readObjnum(rc)
    IN  IF Failed(h.err) THEN h
        ELSE IF ~MatchWaifHeader(h.val.s) THEN parse_error(h, "Invalid waif header")
        ELSE IF h.val.s[1] = "r"
             THEN \* Reference
                  [readString(h) EXCEPT !.val = WaifReference(index)]
        ELSE create(Waif(<<rc.val, ro.val, <<>>>>), ro)

readValue(r, known_type) ==
    LET r1 == IF known_type # NoneV THEN [r EXCEPT !.val = known_type] ELSE readInt(r)
        val_type == r1.val.i
    IN  IF Failed(r1.err) THEN r1
        ELSE CASE val_type = STR -> readString(r1)
               [] val_type = OBJ -> readObjnum(r1)
               [] val_type = ANON -> readAnon(r1)
               [] val_type = INT -> readInt(r1)
               [] val_type = FLOAT -> readFloat(r1)
               [] val_type = ERR -> readErr(r1)
               [] val_type = LIST -> readList(r1)
               [] val_type = CLEAR -> [r1 EXCEPT !.val = ClearV]
               [] val_type = NONE -> [r1 EXCEPT !.val = NoneV]
               [] val_type = MAP -> readMap(r1)
               [] val_type = BOOL -> readBool(r1)
               [] val_type = CATCH ->
                    LET r2 == readInt(r1) IN
                    IF Failed(r2.err) THEN r2 ELSE [r2 EXCEPT !.val = _Catch(r2.val.i)]
               [] val_type = FINALLY -> readInt(r1)
               [] val_type = WAIF -> readWaif(r1)
               [] OTHER -> parse_error(r1, "unknown type")

(***************************************************************************)
(* writer.py: the Writer and the value codec                               *)
(***************************************************************************)
\* Writer(db=db, f=f): out is the lines written to the sink f so far
Writer(db_, f) == [db |-> db_, out |-> f, err |-> NoErr]

wraise(w, kind) == [w EXCEPT !.err = PyErr(kind)]

write(w, text) == IF Failed(w.err) THEN w ELSE [w EXCEPT !.out = Append(@, text)]

\* f"{i:d}\n": only the subclasses of int have the format code d
writeInt(w, i) ==
    IF Failed(w.err) THEN w
    ELSE IF i.t \in IntLike THEN write(w, <<FmtInt(i.i)>>)
    ELSE IF i.t \in {"str", "float"} THEN wraise(w, "ValueError")
    ELSE wraise(w, "TypeError")

\* f"{s}\n"
writeString(w, s) == write(w, PyStr(s))

writeObj(w, obj) == writeInt(w, obj)

\* f"{f:.19g}\n"
writeFloat(w, f) == write(w, f.s)

writeBool(w, b) == writeInt(w, IntV(IF b.i # 0 THEN 1 ELSE 0))

RECURSIVE writeValue(_, _)
RECURSIVE writeValues(_, _, _)
RECURSIVE writeMapItems(_, _, _)

\* for item in collection: self.writeValue(item)
writeValues(w, xs, n) ==
    IF Failed(w.err) \/ n > Len(xs) THEN w
    ELSE writeValues(writeValue(w, xs[n]), xs, n + 1)

writeList(w, l) == writeValues(writeInt(w, IntV(Len(l.xs))), l.xs, 1)

\* writeMapItem on every (key, value) of m.items()
writeMapItems(w, kvs, n) ==
    IF Failed(w.err) \/ 2 * n > Len(kvs) THEN w
    ELSE writeMapItems(writeValue(writeValue(w, kvs[2 * n - 1]), kvs[2 * n]), kvs, n + 1)

writeMap(w, m) == writeMapItems(writeInt(w, IntV(Len(m.xs) \div 2)), m.xs, 1)

writeValue(w, v) ==
    LET value_type == v.t IN
    IF Failed(w.err) THEN w
    ELSE CASE value_type = "int" -> writeInt(writeInt(w, IntV(INT)), v)
           [] value_type = "str" -> writeString(writeInt(w, IntV(STR)), v)
           [] value_type = "ObjNum" -> writeObj(writeInt(w, IntV(OBJ)), v)
           [] value_type = "float" -> writeFloat(writeInt(w, IntV(FLOAT)), v)
           [] value_type = "bool" -> writeBool(writeInt(w, IntV(BOOL)), v)
           [] value_type = "list" -> writeList(writeInt(w, IntV(LIST)), v)
           [] value_type = "dict" -> writeMap(writeInt(w, IntV(MAP)), v)
           [] value_type = "NoneType" -> writeInt(w, IntV(NONE))
           [] value_type = "_Catch" -> writeInt(writeInt(w, IntV(CATCH)), v)
           [] value_type = "Clear" -> writeInt(w, IntV(CLEAR))
           [] value_type = "Err" -> writeInt(writeInt(w, IntV(ERR)), v)
           [] value_type = "Anon" -> writeInt(writeInt(w, IntV(ANON)), v)
           [] OTHER -> wraise(w, "Exception")

(***************************************************************************)
(* database.py: MooObject, MooDatabase and the property operations         *)
(***************************************************************************)
\* the depth at which Python gives up a recursion (RecursionError)
RecursionLimit == 6

\* MooObject.__init__(db, id, name, flags, owner, location, parents=[]),
\* the other fields take their defaults.  ObjectFlags keeps the integer.
MooObject(db_, id, name, flags, owner, location, parents) ==
    [db |-> db_, id |-> id, name |-> name, flags |-> flags, owner |-> owner,
     location |-> location, parents |-> parents, children |-> ListV(<<>>),
     last_move |-> IntV(-1), contents |-> ListV(<<>>), verbs |-> <<>>,
     propnames |-> <<>>, propdefs |-> <<>>, anon |-> FALSE, recycled |-> FALSE]

Propdef(value, owner, perms) == [value |-> value, owner |-> owner, perms |-> perms]

Verb(name, owner, perms, preps, object) ==
    [name |-> name, owner |-> owner, perms |-> perms, preps |-> preps,
     object |-> object, code |-> NoneV]

\* MooDatabase(): version and versionstring are unset until parse assigns them
MooDatabase ==
    [versionstring |-> NoneV, version |-> NoneV, total_objects |-> 0,
     total_verbs |-> 0, total_players |-> 0, finalizations |-> <<>>,
     clocks |-> <<>>, objects |-> <<>>, queuedTasks |-> <<>>,
     suspendedTasks |-> <<>>, interruptedTasks |-> <<>>, connections |-> <<>>,
     waifs |-> <<>>, players |-> <<>>]

\* db.objects is a dict: a sequence of [key, obj] in insertion order
HasKey(objects, k) == \E j \in 1 .. Len(objects) : PyEq(objects[j].key, k)
KeyPos(objects, k) == CHOOSE j \in 1 .. Len(objects) : PyEq(objects[j].key, k)
ObjGet(objects, k) == objects[KeyPos(objects, k)].obj
\* db.objects[k] = obj
ObjSet(objects, k, obj) ==
    IF HasKey(objects, k)
    THEN [objects EXCEPT ![KeyPos(objects, k)].obj = obj]
    ELSE Append(objects, [key |-> k, obj |-> obj])

\* list.index(x): the first position (from 0) of x, -1 when absent
RECURSIVE IndexFrom(_, _, _)
IndexFrom(xs, x, n) ==
    IF n > Len(xs) THEN -1
    ELSE IF PyEq(xs[n], x) THEN n - 1
    ELSE IndexFrom(xs, x, n + 1)
ListIndex(xs, x) == IndexFrom(xs, x, 1)

\* results of _find_property_index: an index, None, or an exception
Found(i) == [kind |-> "index", i |-> i]
NotFound == [kind |-> "None", i |-> -1]
FindRaised(kind) == [kind |-> kind, i |-> -1]

RECURSIVE _find_property_index(_, _, _, _)
RECURSIVE find_in_parents(_, _, _, _, _)

\* for parent_id in obj.parents: ... return the first index found
find_in_parents(objects, parents, n, prop_name, depth) ==
    IF n > Len(parents) THEN NotFound
    ELSE IF ~HasKey(objects, parents[n])
         THEN find_in_parents(objects, parents, n + 1, prop_name, depth)
    ELSE LET parent_index ==
                 _find_property_index(objects, ObjGet(objects, parents[n]), prop_name, depth + 1)
         IN  IF parent_index.kind # "None" THEN parent_index
             ELSE find_in_parents(objects, parents, n + 1, prop_name, depth)

_find_property_index(objects, obj, prop_name, depth) ==
    IF depth > RecursionLimit THEN FindRaised("RecursionError")
    ELSE IF ListIndex(obj.propnames, prop_name) # -1
         THEN Found(ListIndex(obj.propnames, prop_name))
    ELSE IF obj.parents.t # "list" THEN FindRaised("TypeError")
    ELSE find_in_parents(objects, obj.parents.xs, 1, prop_name, depth)

\* isinstance(value, Clear): the class object Clear is not an instance of it
IsClearInstance(value) == value.t = "Clear"

\* the state of a mutating call: db.objects as updated so far, and the exception
Call(objects) == [objects |-> objects, err |-> NoErr, ret |-> NoneV]
craise(st, kind) == [st EXCEPT !.err = PyErr(kind)]

\* obj.propdefs[prop_index].value = value on the object stored under key
SetSlot(st, key, prop_index, value) ==
    LET p == KeyPos(st.objects, key) IN
    IF prop_index + 1 > Len(st.objects[p].obj.propdefs) THEN craise(st, "IndexError")
    ELSE [st EXCEPT !.objects[p].obj.propdefs[prop_index + 1].value = value]

RECURSIVE _update_descendants_clear_properties(_, _, _, _, _)
RECURSIVE update_clear_children(_, _, _, _, _, _)

\* the body of the loop over self.objects[obj_id].children, child number n on
update_clear_children(st, children, n, prop_name, value, depth) ==
    IF Failed(st.err) \/ n > Len(children) THEN st
    ELSE LET child_id == children[n] IN
         IF ~HasKey(st.objects, child_id) THEN craise(st, "KeyError")
         ELSE LET child == ObjGet(st.objects, child_id)
                  prop_index == _find_property_index(st.objects, child, prop_name, depth)
              IN  IF prop_index.kind \notin {"index", "None"} THEN craise(st, prop_index.kind)
                  ELSE IF prop_index.kind = "None"
                       THEN update_clear_children(st, children, n + 1, prop_name, value, depth)
                  ELSE IF prop_index.i + 1 > Len(child.propdefs) THEN craise(st, "IndexError")
                  ELSE IF IsClearInstance(child.propdefs[prop_index.i + 1].value)
                       THEN update_clear_children(
                                _update_descendants_clear_properties(
                                    SetSlot(st, child_id, prop_index.i, value),
                                    child_id, prop_name, value, depth + 1),
                                children, n + 1, prop_name, value, depth)
                  ELSE update_clear_children(st, children, n + 1, prop_name, value, depth)

_update_descendants_clear_properties(st, obj_id, prop_name, value, depth) ==
    IF Failed(st.err) THEN st
    ELSE IF depth > RecursionLimit THEN craise(st, "RecursionError")
    ELSE IF ~HasKey(st.objects, obj_id) THEN craise(st, "KeyError")
    ELSE IF ObjGet(st.objects, obj_id).children.t # "list" THEN craise(st, "TypeError")
    ELSE update_clear_children(st, ObjGet(st.objects, obj_id).children.xs, 1,
                               prop_name, value, depth)

set_property(objects, obj_id, prop_name, value) ==
    LET st == Call(objects) IN
    IF ~HasKey(objects, obj_id) THEN craise(st, "ValueError")
    ELSE LET obj == ObjGet(objects, obj_id)
             prop_index == _find_property_index(objects, obj, prop_name, 1)
         IN  IF prop_index.kind = "None" THEN craise(st, "ValueError")
             ELSE IF prop_index.kind # "index" THEN craise(st, prop_index.kind)
             ELSE IF IsClearInstance(value)
                  THEN \* obj.propdefs[prop_index].value = Clear
                       SetSlot(st, obj_id, prop_index.i, ClearClass)
             ELSE _update_descendants_clear_properties(
                      SetSlot(st, obj_id, prop_index.i, value), obj_id, prop_name, value, 1)

RECURSIVE _resolve_property_value(_, _, _, _, _)
RECURSIVE resolve_in_parents(_, _, _, _, _)

resolve_in_parents(objects, parents, n, prop_name, depth) ==
    IF n > Len(parents)
    THEN \* return Clear
         [Call(objects) EXCEPT !.ret = ClearClass]
    ELSE IF ~HasKey(objects, parents[n])
         THEN resolve_in_parents(objects, parents, n + 1, prop_name, depth)
    ELSE LET parent == ObjGet(objects, parents[n])
             parent_prop_index == _find_property_index(objects, parent, prop_name, depth)
         IN  IF parent_prop_index.kind = "None"
             THEN resolve_in_parents(objects, parents, n + 1, prop_name, depth)
             ELSE IF parent_prop_index.kind # "index"
                  THEN craise(Call(objects), parent_prop_index.kind)
             ELSE _resolve_property_value(objects, parent, prop_name,
                                         parent_prop_index.i, depth + 1)

_resolve_property_value(objects, obj, prop_name, prop_index, depth) ==
    IF depth > RecursionLimit THEN craise(Call(objects), "RecursionError")
    ELSE IF prop_index + 1 > Len(obj.propdefs) THEN craise(Call(objects), "IndexError")
    ELSE LET value == obj.propdefs[prop_index + 1].value IN
         IF ~IsClearInstance(value) THEN [Call(objects) EXCEPT !.ret = value]
         ELSE IF obj.parents.t # "list" THEN craise(Call(objects), "TypeError")
         ELSE resolve_in_parents(objects, obj.parents.xs, 1, prop_name, depth)

get_property(objects, obj_id, prop_name) ==
    IF ~HasKey(objects, obj_id) THEN craise(Call(objects), "ValueError")
    ELSE LET obj == ObjGet(objects, obj_id)
             prop_index == _find_property_index(objects, obj, prop_name, 1)
         IN  IF prop_index.kind = "None" THEN craise(Call(objects), "ValueError")
             ELSE IF prop_index.kind # "index" THEN craise(Call(objects), prop_index.kind)
             ELSE _resolve_property_value(objects, obj, prop_name, prop_index.i, 1)

\* obj.propnames[prop_index] = new_name on the object stored under key
SetName(st, key, prop_index, new_name) ==
    LET p == KeyPos(st.objects, key) IN
    IF prop_index + 1 > Len(st.objects[p].obj.propnames) THEN craise(st, "IndexError")
    ELSE [st EXCEPT !.objects[p].obj.propnames[prop_index + 1] = new_name]

RECURSIVE _update_descendants_property_name(_, _, _, _, _)
RECURSIVE update_name_children(_, _, _, _, _, _)

update_name_children(st, children, n, old_name, new_name, depth) ==
    IF Failed(st.err) \/ n > Len(children) THEN st
    ELSE LET child_id == children[n] IN
         IF ~HasKey(st.objects, child_id) THEN craise(st, "KeyError")
         ELSE LET child == ObjGet(st.objects, child_id)
                  prop_index == _find_property_index(st.objects, child, old_name, depth)
              IN  IF prop_index.kind \notin {"index", "None"} THEN craise(st, prop_index.kind)
                  ELSE IF prop_index.kind = "None"
                       THEN update_name_children(st, children, n + 1, old_name, new_name, depth)
                  ELSE update_name_children(
                           _update_descendants_property_name(
                               SetName(st, child_id, prop_index.i, new_name),
                               child_id, old_name, new_name, depth + 1),
                           children, n + 1, old_name, new_name, depth)

_update_descendants_property_name(st, obj_id, old_name, new_name, depth) ==
    IF Failed(st.err) THEN st
    ELSE IF depth > RecursionLimit THEN craise(st, "RecursionError")
    ELSE IF ~HasKey(st.objects, obj_id) THEN craise(st, "KeyError")
    ELSE IF ObjGet(st.objects, obj_id).children.t # "list" THEN craise(st, "TypeError")
    ELSE update_name_children(st, ObjGet(st.objects, obj_id).children.xs, 1,
                              old_name, new_name, depth)

rename_property(objects, obj_id, old_name, new_name) ==
    LET st == Call(objects) IN
    IF ~HasKey(objects, obj_id) THEN craise(st, "ValueError")
    ELSE LET obj == ObjGet(objects, obj_id)
             prop_index == _find_property_index(objects, obj, old_name, 1)
             conflict == _find_property_index(objects, obj, new_name, 1)
         IN  IF prop_index.kind = "None" THEN craise(st, "ValueError")
             ELSE IF prop_index.kind # "index" THEN craise(st, prop_index.kind)
             ELSE IF conflict.kind = "index" THEN craise(st, "ValueError")
             ELSE IF conflict.kind # "None" THEN craise(st, conflict.kind)
             ELSE _update_descendants_property_name(
                      SetName(st, obj_id, prop_index.i, new_name),
                      obj_id, old_name, new_name, 1)

\* list(db.ancestors(obj)): the objects yielded, by id, and the exception that
\* ended the walk.  Every level of "yield from" is one more frame.
Walk(yielded) == [yielded |-> yielded, err |-> NoErr]
RECURSIVE ancestors(_, _, _)
RECURSIVE ancestors_of_parents(_, _, _, _, _)

\* for parent in obj.parents: skip -1, yield from self.ancestors(self.objects[parent])
ancestors_of_parents(objects, parents, n, walk, depth) ==
    IF Failed(walk.err) \/ n > Len(parents) THEN walk
    ELSE IF PyEq(parents[n], IntV(-1))
         THEN ancestors_of_parents(objects, parents, n + 1, walk, depth)
    ELSE IF ~HasKey(objects, parents[n]) THEN [walk EXCEPT !.err = PyErr("KeyError")]
    ELSE LET up == ancestors(objects, ObjGet(objects, parents[n]), depth + 1)
         IN  ancestors_of_parents(objects, parents, n + 1,
                                  [yielded |-> walk.yielded \o up.yielded, err |-> up.err],
                                  depth)

ancestors(objects, obj, depth) ==
    IF depth > RecursionLimit THEN [Walk(<<>>) EXCEPT !.err = PyErr("RecursionError")]
    ELSE IF obj.parents.t # "list" THEN [Walk(<<obj.id>>) EXCEPT !.err = PyErr("TypeError")]
    ELSE ancestors_of_parents(objects, obj.parents.xs, 1, Walk(<<obj.id>>), depth)

(***************************************************************************)
(* templates.py and the patterns compiled from it in reader.py             *)
(***************************************************************************)
\* every token of line s from position n on is the integer field {...:d}
RECURSIVE AllInts(_, _)
AllInts(s, n) == n > Len(s) \/ (IsIntTok(s[n]) /\ AllInts(s, n + 1))
\* \d+: a field of digits, without a sign
IsDigitsTok(tok) == IsIntTok(tok) /\ IntOfTok(tok) >= 0
\* "{count:d} <words>"
MatchCount(s, words) ==
    Len(s) = 1 + Len(words) /\ IsIntTok(s[1]) /\ SubSeq(s, 2, Len(s)) = words

versionRe(s) ==
    /\ Len(s) = 7
    /\ SubSeq(s, 1, 5) = <<"**", "LambdaMOO", "Database,", "Format", "Version">>
    /\ IsIntTok(s[6])
    /\ s[7] = "**"
varCountRe(s) == MatchCount(s, <<"variables">>)
clockCountRe(s) == MatchCount(s, <<"clocks">>)
taskCountRe(s) == MatchCount(s, <<"queued", "tasks">>)
taskHeaderRe(s) == Len(s) = 4 /\ AllInts(s, 1)
activationHeaderRe(s) == Len(s) = 9 /\ AllInts(s, 1)
pendingValueRe(s) == MatchCount(s, <<"values", "pending", "finalization">>)
suspendedTaskCountRe(s) == MatchCount(s, <<"suspended", "tasks">>)
\* "{start_time:d} {id:d} {value}": value is the non-empty rest of the line
suspendedTaskHeaderRe(s) == Len(s) >= 3 /\ IsIntTok(s[1]) /\ IsIntTok(s[2])
interruptedTaskCountRe(s) == MatchCount(s, <<"interrupted", "tasks">>)
\* (?P<id>\d+) (?P<status>[\w\W]+)
interruptedTaskHeaderRe(s) == Len(s) >= 2 /\ IsDigitsTok(s[1])
vmHeaderRe(s) == Len(s) = 4 /\ AllInts(s, 1)
\* (?P<count>\d+) active connections(?P<listener_tag> with listeners)?,
\* matched at the start of the line only
connectionCountRe(s) ==
    Len(s) >= 3 /\ IsDigitsTok(s[1]) /\ SubSeq(s, 2, 3) = <<"active", "connections">>
listener_tag(s) == Len(s) >= 5 /\ SubSeq(s, 4, 5) = <<"with", "listeners">>
langverRe(s) == Len(s) = 3 /\ SubSeq(s, 1, 2) = <<"language", "version">> /\ IsIntTok(s[3])
stackheaderRe(s) ==
    Len(s) = 5 /\ IsIntTok(s[1]) /\ SubSeq(s, 2, 5) = <<"rt_stack", "slots", "in", "use">>
pcRe(s) == Len(s) = 3 /\ AllInts(s, 1)

(***************************************************************************)
(* reader.py: sections, objects, tasks                                     *)
(***************************************************************************)
\* _read_and_match with the pattern named by pattern
Matches(pattern, s) ==
    CASE pattern = "varCountRe" -> varCountRe(s)
      [] pattern = "clockCountRe" -> clockCountRe(s)
      [] pattern = "taskCountRe" -> taskCountRe(s)
      [] pattern = "taskHeaderRe" -> taskHeaderRe(s)
      [] pattern = "pendingValueRe" -> pendingValueRe(s)
      [] pattern = "suspendedTaskCountRe" -> suspendedTaskCountRe(s)
      [] pattern = "suspendedTaskHeaderRe" -> suspendedTaskHeaderRe(s)
      [] pattern = "interruptedTaskCountRe" -> interruptedTaskCountRe(s)
      [] pattern = "interruptedTaskHeaderRe" -> interruptedTaskHeaderRe(s)
      [] pattern = "connectionCountRe" -> connectionCountRe(s)
      [] OTHER -> FALSE

_read_and_match(r, pattern, error_message) ==
    LET r1 == readString(r) IN
    IF Failed(r1.err) THEN r1
    ELSE IF ~Matches(pattern, r1.val.s) THEN parse_error(r1, error_message)
    ELSE r1

\* the lines of a code block, up to the line "."; at the end of the file
\* readline() gives "" for ever and the loop does not end
RECURSIVE readCodeLines(_, _)
readCodeLines(r, code) ==
    LET r1 == readString(r) IN
    IF Failed(r1.err) THEN r1
    ELSE IF r1.val.s = <<".">> THEN [r1 EXCEPT !.val = ListV(code)]
    ELSE IF r1.line > Len(r1.f) THEN raise(r1, "NonTermination")
    ELSE readCodeLines(r1, Append(code, r1.val))
readCode(r) == readCodeLines(r, <<>>)

\* for _ in range(varCount): name = readString; value = readValue; rtEnv[name] = value
RECURSIVE readRTEnvItems(_, _, _)
readRTEnvItems(r, n, rtEnv) ==
    LET set(name, r2) ==
            IF Failed(r2.err) THEN r2
            ELSE readRTEnvItems(r2, n - 1, DictSet(rtEnv, name, r2.val))
        r1 == readString(r)
    IN  IF Failed(r.err) THEN r
        ELSE IF n <= 0 THEN [r EXCEPT !.val = DictV(rtEnv)]
        ELSE set(r1.val, readValue(r1, NoneV))

readRTEnv(r) ==
    LET r1 == _read_and_match(r, "varCountRe", "Could not find variable count for RT Env") IN
    IF Failed(r1.err) THEN r1 ELSE readRTEnvItems(r1, IntOfTok(r1.val.s[1]), <<>>)

\* Activation(): the fields with their defaults; debug, verb and verbname unset
Activation ==
    [this |-> NoneV, threaded |-> NoneV, player |-> NoneV, programmer |-> NoneV,
     vloc |-> NoneV, debug |-> NoneV, verb |-> NoneV, verbname |-> NoneV,
     code |-> ListV(<<>>), stack |-> ListV(<<>>), unused1 |-> IntV(0),
     unused2 |-> IntV(0), unused3 |-> IntV(0), unused4 |-> IntV(0),
     rtEnv |-> DictV(<<>>), temp |-> NoneV, pc |-> IntV(0), bi_func |-> IntV(0),
     func_name |-> StrV(<<>>), error |-> IntV(0)]

\* bool(x) of a str: true unless it is empty
BoolOfStr(s) == BoolV(s # <<>>)

read_activation_as_pi(r) ==
    LET version == r.db.version.i
        \* from the header line on: _this, _vloc and threaded have been read
        header(_this, _vloc, r3) ==
            LET r4 == readString(r3)
                headerMatch == r4.val.s
                r10 == readString(readString(readString(readString(readString(r4)))))
                r11 == readString(r10)
            IN  IF Failed(r4.err) THEN r4
                ELSE IF ~activationHeaderRe(headerMatch)
                     THEN parse_error(r4, "Could not find activation header")
                ELSE [r11 EXCEPT !.val =
                        [Activation EXCEPT
                           !.this = IF version >= DBV_This THEN _this
                                    ELSE IntV(IntOfTok(headerMatch[1])),
                           !.unused1 = IntV(IntOfTok(headerMatch[2])),
                           !.threaded = r3.val,
                           !.unused2 = IntV(IntOfTok(headerMatch[3])),
                           !.player = IntV(IntOfTok(headerMatch[4])),
                           !.unused3 = IntV(IntOfTok(headerMatch[5])),
                           !.programmer = IntV(IntOfTok(headerMatch[6])),
                           !.vloc = IF version >= DBV_Anon THEN _vloc
                                    ELSE IntV(IntOfTok(headerMatch[7])),
                           !.unused4 = IntV(IntOfTok(headerMatch[8])),
                           !.debug = BoolOfStr(<<headerMatch[9]>>),
                           !.verb = r10.val,
                           !.verbname = r11.val]]
    IN  Only({ Only({ Only({
            header(r1.val, r2.val,
                   IF version >= DBV_Threaded THEN readInt(r2) ELSE [r2 EXCEPT !.val = IntV(0)])
          : r2 \in {IF version >= DBV_Anon THEN readValue(r1, NoneV) ELSE r1} })   \* _vloc
          : r1 \in {IF version >= DBV_This THEN readValue(r0, NoneV) ELSE r0} })   \* _this
          : r0 \in {readValue(r, NoneV)} })                                        \* _

read_activation(r) ==
    LET version == r.db.version.i
        \* activation.temp has been read: the pc line, and func_name
        pc_(activation, r7) ==
            LET r8 == readString(r7)
                r9 == readString(r8)
                done == [activation EXCEPT !.temp = r7.val,
                                           !.pc = IntV(IntOfTok(r8.val.s[1])),
                                           !.bi_func = IntV(IntOfTok(r8.val.s[2])),
                                           !.error = IntV(IntOfTok(r8.val.s[3]))]
            IN  IF Failed(r8.err) THEN r8
                ELSE IF ~pcRe(r8.val.s) THEN parse_error(r8, "READ_ACTIV: bad pc")
                ELSE IF done.bi_func.i # 0
                     THEN [r9 EXCEPT !.val = [done EXCEPT !.func_name = r9.val]]
                ELSE [r8 EXCEPT !.val = done]
        \* the stack header line and the stack values
        stack_(r3) ==
            LET r4 == readString(r3) IN
            IF Failed(r4.err) THEN r4
            ELSE IF ~stackheaderRe(r4.val.s)
                 THEN parse_error(r4, "READ_ACTIV: bad stack header")
            ELSE readListItems(r4, IntOfTok(r4.val.s[1]), <<>>)
        r1 == IF version < DBV_Float THEN r ELSE readString(r)
    IN  IF Failed(r1.err) THEN r1
        ELSE IF version >= DBV_Float /\ ~langverRe(r1.val.s)
             THEN parse_error(r1, "Bad language version header")
        ELSE Only({ Only({ Only({ Only({
                 IF Failed(r6.err) THEN r6
                 ELSE pc_([r6.val EXCEPT !.stack = r5.val, !.code = r2.val, !.rtEnv = r3.val],
                          readValue(r6, NoneV))                 \* temp
               : r6 \in {read_activation_as_pi(r5)} })          \* activation
               : r5 \in {stack_(r3)} })                         \* stack
               : r3 \in {readRTEnv(r2)} })                      \* rtEnv
               : r2 \in {readCode(r1)} })                       \* code

VM(local, stack, top, vector, funcId, maxStackframes) ==
    [locals |-> local, stack |-> stack, top |-> top, vector |-> vector,
     funcId |-> funcId, maxStackframes |-> maxStackframes]

\* for _ in range(top + 1): stack.append(self.read_activation(db))
RECURSIVE readVMStack(_, _, _)
readVMStack(r, n, stack) ==
    LET append(r1) == readVMStack(r1, n - 1, Append(stack, r1.val)) IN
    IF Failed(r.err) THEN r
    ELSE IF n <= 0 THEN [r EXCEPT !.val = stack]
    ELSE append(read_activation(r))

readVM(r) ==
    LET build(local, header, r3) ==
            IF Failed(r3.err) THEN r3
            ELSE [r3 EXCEPT !.val = VM(local, r3.val, IntV(IntOfTok(header[1])),
                                       IntV(IntOfTok(header[2])),
                                       IntV(IntOfTok(header[3])),
                                       IntV(IntOfTok(header[4])))]
    IN  Only({ LET r2 == readString(r1)
                   header == r2.val.s
               IN  IF Failed(r2.err) THEN r2
                   ELSE IF ~vmHeaderRe(header) THEN parse_error(r2, "Bad VM Header")
                   ELSE build(r1.val, header, readVMStack(r2, IntOfTok(header[1]) + 1, <<>>))
             : r1 \in {IF r.db.version.i >= DBV_TaskLocal THEN readValue(r, NoneV)
                       ELSE [r EXCEPT !.val = DictV(<<>>)]} })   \* local

QueuedTask(firstLineno, id, st) ==
    [firstLineno |-> firstLineno, id |-> id, st |-> st, unused |-> IntV(0),
     value |-> NoneV, activation |-> NoneV, rtEnv |-> NoneV, code |-> ListV(<<>>)]

readQueuedTask(r) ==
    LET r1 == _read_and_match(r, "taskHeaderRe", "Could not find task header")
        headerMatch == r1.val.s
        append(activation, rtEnv, r4) ==
            IF Failed(r4.err) THEN r4
            ELSE [r4 EXCEPT !.db.queuedTasks = Append(@,
                    [QueuedTask(IntV(IntOfTok(headerMatch[2])), IntV(IntOfTok(headerMatch[4])),
                                IntV(IntOfTok(headerMatch[3])))
                       EXCEPT !.activation = activation, !.rtEnv = rtEnv, !.code = r4.val,
                              !.unused = IntV(IntOfTok(headerMatch[1]))])]
    IN  Only({ Only({
            append(r2.val, r3.val, readCode(r3))             \* task.code
          : r3 \in {readRTEnv(r2)} })                        \* task.rtEnv
          : r2 \in {read_activation_as_pi(r1)} })            \* task.activation

SuspendedTask(firstLineno, id, start_time) ==
    [firstLineno |-> firstLineno, id |-> id, start_time |-> start_time,
     value |-> NoneV, vm |-> NoneV]

readSuspendedTask(r) ==
    LET r1 == _read_and_match(r, "suspendedTaskHeaderRe", "Bad suspended task header")
        taskMatch == r1.val.s
        val_ == SubSeq(taskMatch, 3, Len(taskMatch))
        append(value, r3) ==
            IF Failed(r3.err) THEN r3
            ELSE [r3 EXCEPT !.db.suspendedTasks = Append(@,
                    [SuspendedTask(IntV(0), IntV(IntOfTok(taskMatch[2])),
                                   IntV(IntOfTok(taskMatch[1])))
                       EXCEPT !.value = value, !.vm = r3.val])]
    IN  IF Failed(r1.err) THEN r1
        ELSE \* task.value = self.readValue(db, known_type=int(val))
             IF ~IsIntLine(val_) THEN raise(r1, "ValueError")
        ELSE Only({ append(r2.val, readVM(r2))
                  : r2 \in {readValue(r1, IntV(IntOfTok(val_[1])))} })

InterruptedTask(id, status, vm) == [id |-> id, status |-> status, vm |-> vm]

readInterruptedTask(r) ==
    LET r1 == _read_and_match(r, "interruptedTaskHeaderRe", "Bad interrupted tasks header")
        headerMatch == r1.val.s
        append(r2) ==
            IF Failed(r2.err) THEN r2
            ELSE [r2 EXCEPT !.db.interruptedTasks = Append(@,
                    InterruptedTask(IntV(IntOfTok(headerMatch[1])),
                                    StrV(SubSeq(headerMatch, 2, Len(headerMatch))), r2.val))]
    IN  append(readVM(r1))

Connection(who, listener) == [who |-> who, listener |-> listener]

readConnection(r, listeners) ==
    LET r1 == readString(r)
        ln == r1.val.s
    IN  IF Failed(r1.err) THEN r1
        ELSE IF listeners
             THEN \* who_str, listener_str = line.split(' ')
                  IF Len(ln) # 2 \/ ~IsIntTok(ln[1]) \/ ~IsIntTok(ln[2])
                  THEN raise(r1, "ValueError")
                  ELSE [r1 EXCEPT !.db.connections = Append(@,
                           Connection(IntV(IntOfTok(ln[1])), IntV(IntOfTok(ln[2]))))]
        ELSE IF ~IsIntLine(ln) THEN raise(r1, "ValueError")
        ELSE [r1 EXCEPT !.db.connections = Append(@,
                 Connection(IntV(IntOfTok(ln[1])), IntV(0)))]

\* readClock
readClock(r) ==
    LET r1 == readString(r) IN
    IF Failed(r1.err) THEN r1 ELSE [r1 EXCEPT !.db.clocks = Append(@, r1.val)]

\* enums.py: ObjectFlags and PropertyFlags are integer flag sets; the
\* conversion keeps the integer
ObjectFlags(x) == IF x.t \in IntLike THEN IntV(x.i) ELSE x
PropertyFlags(x) == IF x.t \in IntLike THEN IntV(x.i) ELSE x

\* the attrs-generated MooObject.__init__: positional arguments fill
\* db, id, name, flags, owner, location, parents in this order, the missing
\* ones take their defaults, and flags goes through the converter ObjectFlags
MooObjectInit(args) ==
    MooObject(args[1], args[2], args[3], ObjectFlags(args[4]), args[5], args[6],
              IF Len(args) >= 7 THEN args[7] ELSE ListV(<<>>))

readVerbMetadata(r, obj) ==
    LET r1 == readString(r)
        r2 == readObjnum(r1)
        r3 == readInt(r2)
        r4 == readInt(r3)
    IN  IF Failed(r4.err) THEN r4
        ELSE [r4 EXCEPT !.val = [obj EXCEPT !.verbs = Append(@,
                 Verb(r1.val, r2.val, r3.val, r4.val, obj.id))]]

\* for _ in range(numVerbs): self.readVerbMetadata(obj)
RECURSIVE readVerbMetadatas(_, _, _)
readVerbMetadatas(r, n, obj) ==
    LET rest(r1) == readVerbMetadatas(r1, n - 1, r1.val) IN
    IF Failed(r.err) THEN r
    ELSE IF n <= 0 THEN [r EXCEPT !.val = obj]
    ELSE rest(readVerbMetadata(r, obj))

\* for _ in range(numProperties): obj.propnames.append(self.readString())
RECURSIVE readPropnames(_, _, _)
readPropnames(r, n, obj) ==
    IF Failed(r.err) THEN r
    ELSE IF n <= 0 THEN [r EXCEPT !.val = obj]
    ELSE LET r1 == readString(r) IN
         readPropnames(r1, n - 1, [obj EXCEPT !.propnames = Append(@, r1.val)])

\* for _ in range(numPropdefs): value, owner, perms; obj.propdefs.append(propdef)
RECURSIVE readPropdefs(_, _, _)
readPropdefs(r, n, obj) ==
    LET append(value, r2) ==
            LET r3 == readInt(r2) IN
            IF Failed(r3.err) THEN r3
            ELSE readPropdefs(r3, n - 1,
                     [obj EXCEPT !.propdefs = Append(@,
                          Propdef(value, r2.val, PropertyFlags(r3.val)))])
        owner(r1) == append(r1.val, readObjnum(r1))
    IN  IF Failed(r.err) THEN r
        ELSE IF n <= 0 THEN [r EXCEPT !.val = obj]
        ELSE owner(readValue(r, NoneV))

readProperties(r, obj) ==
    LET r1 == readInt(r) IN
    Only({ LET r3 == readInt(r2) IN
           IF Failed(r3.err) THEN r3 ELSE readPropdefs(r3, r3.val.i, r2.val)
         : r2 \in {IF Failed(r1.err) THEN r1 ELSE readPropnames(r1, r1.val.i, obj)} })

\* the object number line "#<oid>" or "#<oid> recycled"
StartsWithHash(s) == Len(s) >= 1 /\ s[1] = "#"
HasRecycled(s) == \E j \in 1 .. Len(s) : s[j] = "recycled"
\* the result of an object reader that skipped a recycled object
NoObject == [recycled |-> TRUE]

readObject_v4(r) ==
    LET r1 == readString(r)
        objNumber == r1.val.s
    IN  IF Failed(r1.err) THEN r1
        ELSE IF ~StartsWithHash(objNumber) THEN parse_error(r1, "object number does not have #")
        ELSE IF HasRecycled(objNumber) THEN [r1 EXCEPT !.val = NoObject]
        ELSE IF ~IsIntLine(Tail(objNumber)) THEN raise(r1, "ValueError")
        ELSE LET r2 == readString(r1)          \* name
                 r3 == readString(r2)          \* blankline
                 r4 == readInt(r3)             \* flags
                 r5 == readObjnum(r4)          \* owner
                 r6 == readObjnum(r5)          \* location
                 r7 == readInt(r6)             \* firstContent
                 r8 == readInt(r7)             \* neighbor
                 r9 == readObjnum(r8)          \* parent
                 r10 == readInt(r9)            \* firstChild
                 r11 == readInt(r10)           \* sibling
             IN  IF Failed(r11.err) THEN r11
                 ELSE \* MooObject(id=, name=, flags=, owner=, location=, parents=):
                      \* the required argument db is not given
                      raise(r11, "TypeError")

readObject_ng(r) ==
    LET version == r.db.version.i
        r1 == readString(r)
        objNumber == r1.val.s
        oid == IntV(IntOfTok(objNumber[2]))
        r2 == readString(r1)          \* name
        r3 == readInt(r2)             \* flags
        r4 == readObjnum(r3)          \* owner
        \* obj = MooObject(oid, name, flags, owner, location, parents) and the
        \* assignments to obj.last_move, obj.contents and obj.children
        create(location, last_move, contents, parents, children) ==
            [MooObjectInit(<<oid, r2.val, r3.val, r4.val, location,
                             IF parents.t # "list" THEN ListV(<<parents>>) ELSE parents>>)
               EXCEPT !.contents = contents,
                      !.children = children,
                      !.last_move = IF version >= DBV_Last_Move THEN last_move ELSE @]
        verbs(obj, r9) ==
            LET r10 == readInt(r9) IN  \* numVerbs
            IF Failed(r10.err) THEN r10 ELSE readVerbMetadatas(r10, r10.val.i, obj)
    IN  IF Failed(r1.err) THEN r1
        ELSE IF ~StartsWithHash(objNumber) THEN parse_error(r1, "object number does not have #")
        ELSE IF HasRecycled(objNumber) THEN [r1 EXCEPT !.val = NoObject]
        ELSE IF ~IsIntLine(Tail(objNumber)) THEN raise(r1, "ValueError")
        ELSE Only({ Only({ Only({ Only({ Only({ Only({
                 IF Failed(r11.err) THEN r11 ELSE readProperties(r11, r11.val)
               : r11 \in {IF Failed(r9.err) THEN r9
                          ELSE verbs(create(r5.val, r6.val, r7.val, r8.val, r9.val), r9)} })
               : r9 \in {readValue(r8, NoneV)} })                     \* children
               : r8 \in {readValue(r7, NoneV)} })                     \* parents
               : r7 \in {readValue(r6, NoneV)} })                     \* contents
               : r6 \in {IF version >= DBV_Last_Move THEN readValue(r5, NoneV) ELSE r5} })
               : r5 \in {readValue(r4, NoneV)} })                     \* location

\* for _ in range(db.total_objects): obj = reader(db); db.objects[obj.id] = obj
RECURSIVE readObjectsItems(_, _)
readObjectsItems(r, n) ==
    LET store(r1) ==
            IF Failed(r1.err) THEN r1
            ELSE IF r1.val = NoObject THEN readObjectsItems(r1, n - 1)
            ELSE readObjectsItems(
                     [r1 EXCEPT !.db.objects = ObjSet(@, r1.val.id, r1.val)], n - 1)
    IN  IF Failed(r.err) \/ n <= 0 THEN r
        ELSE store(IF r.db.version.i = 4 THEN readObject_v4(r) ELSE readObject_ng(r))

readObjects(r) ==
    IF Failed(r.err) THEN r
    ELSE readObjectsItems([r EXCEPT !.db.objects = <<>>], r.db.total_objects)

\* for i in range(num_anon): obj = readObject_ng; obj.anon = True; db.objects[obj.id] = obj
RECURSIVE readAnonChunk(_, _)
readAnonChunk(r, n) ==
    LET store(r1) ==
            IF Failed(r1.err) THEN r1
            ELSE IF r1.val = NoObject THEN raise(r1, "AttributeError")
            ELSE readAnonChunk([r1 EXCEPT !.db.objects =
                                   ObjSet(@, r1.val.id, [r1.val EXCEPT !.anon = TRUE])], n - 1)
    IN  IF Failed(r.err) \/ n <= 0 THEN r ELSE store(readObject_ng(r))

\* while True: num_anon = readInt(); 0 ends the loop
RECURSIVE readAnonObjects(_)
readAnonObjects(r) ==
    LET r1 == readInt(r) IN
    IF Failed(r1.err) THEN r1
    ELSE IF r1.val.i = 0 THEN r1
    ELSE readAnonObjects(IF r1.val.i > 0 THEN readAnonChunk(r1, r1.val.i) ELSE r1)

\* the position of the first ":" of a verb key, 0 when there is none
ColonPos(s) == IF \E j \in 1 .. Len(s) : s[j] = ":"
               THEN CHOOSE j \in 1 .. Len(s) : s[j] = ":" /\ \A q \in 1 .. j - 1 : s[q] # ":"
               ELSE 0

readVerb(r) ==
    LET r1 == readString(r)
        verbLocation == r1.val.s
        sep == ColonPos(verbLocation)
        objNumber == IntV(IntOfTok(verbLocation[2]))
        verbNumber == IntOfTok(verbLocation[sep + 1])
        assign(r2) ==
            IF Failed(r2.err) THEN r2
            ELSE IF ~HasKey(r2.db.objects, objNumber) THEN parse_error(r2, "object not found")
            ELSE LET p == KeyPos(r2.db.objects, objNumber)
                     n == Len(r2.db.objects[p].obj.verbs)
                     \* obj.verbs[verbNumber]: a negative index counts from the end
                     i == IF verbNumber < 0 THEN n + verbNumber + 1 ELSE verbNumber + 1
                 IN  IF i < 1 \/ i > n THEN raise(r2, "IndexError")
                     ELSE [r2 EXCEPT !.db.objects[p].obj.verbs[i].object = objNumber,
                                     !.db.objects[p].obj.verbs[i].code = r2.val]
    IN  IF Failed(r1.err) THEN r1
        ELSE IF sep = 0 THEN parse_error(r1, "verb does not have seperator")
        ELSE IF ~IsIntLine(SubSeq(verbLocation, 2, sep - 1)) THEN raise(r1, "ValueError")
        ELSE IF ~IsIntLine(SubSeq(verbLocation, sep + 1, Len(verbLocation)))
             THEN raise(r1, "ValueError")
        ELSE assign(readCode(r1))

\* _read_and_process_items(db, count, process_function); the parameter
\* process_function is the postfix operator ^#: q ^# is process_function(q)
_read_and_process_items(r, count, _ ^#) ==
    LET done[n \in 0 .. (IF count > 0 THEN count ELSE 0)] ==
            IF n = 0 THEN r
            ELSE IF Failed(done[n - 1].err) THEN done[n - 1]
            ELSE (done[n - 1]) ^#
    IN  done[IF count > 0 THEN count ELSE 0]

readPlayers(r) ==
    LET check(r2) ==
            IF Failed(r2.err) THEN r2
            ELSE \* assert db.total_players == len(db.players)
                 IF r2.db.total_players # Len(r2.db.players) THEN raise(r2, "AssertionError")
            ELSE r2
        \* lambda _: db.players.append(self.readObjnum())
        append(q) == IF Failed(q.err) THEN q ELSE [q EXCEPT !.db.players = Append(@, q.val)]
        r1 == readInt(r)
    IN  check(IF Failed(r1.err) THEN r1
              ELSE _read_and_process_items([r1 EXCEPT !.db.total_players = r1.val.i], r1.val.i,
                                           LAMBDA q : append(readObjnum(q))))

readPending(r) ==
    LET r1 == _read_and_match(r, "pendingValueRe", "Bad pending finalizations")
        \* lambda _: db.finalizations.append(self.readValue(db))
        append(q) ==
            IF Failed(q.err) THEN q ELSE [q EXCEPT !.db.finalizations = Append(@, q.val)]
    IN  IF Failed(r1.err) THEN r1
        ELSE _read_and_process_items(r1, IntOfTok(r1.val.s[1]),
                                     LAMBDA q : append(readValue(q, NoneV)))

readClocks(r) ==
    LET r1 == _read_and_match(r, "clockCountRe", "Could not find clock definitions") IN
    IF Failed(r1.err) THEN r1
    ELSE _read_and_process_items(r1, IntOfTok(r1.val.s[1]), readClock)

readTaskQueue(r) ==
    LET r1 == _read_and_match(r, "taskCountRe", "Could not find task queue")
        numTasks == IntOfTok(r1.val.s[1])
        check(r2) ==
            IF Failed(r2.err) THEN r2
            ELSE \* assert numTasks == len(db.queuedTasks)
                 IF numTasks # Len(r2.db.queuedTasks) THEN raise(r2, "AssertionError")
            ELSE r2
    IN  check(IF Failed(r1.err) THEN r1
              ELSE _read_and_process_items(r1, numTasks, readQueuedTask))

readSuspendedTasks(r) ==
    LET r1 == _read_and_match(r, "suspendedTaskCountRe", "Bad suspended tasks header") IN
    IF Failed(r1.err) THEN r1
    ELSE _read_and_process_items(r1, IntOfTok(r1.val.s[1]), readSuspendedTask)

readInterruptedTasks(r) ==
    LET r1 == _read_and_match(r, "interruptedTaskCountRe", "Bad interrupted tasks header") IN
    IF Failed(r1.err) THEN r1
    ELSE _read_and_process_items(r1, IntOfTok(r1.val.s[1]), readInterruptedTask)

readConnections(r) ==
    LET r1 == _read_and_match(r, "connectionCountRe", "Bad active connections header line")
        listeners == listener_tag(r1.val.s)
    IN  IF Failed(r1.err) THEN r1
        ELSE _read_and_process_items(r1, IntOfTok(r1.val.s[1]),
                                     LAMBDA q : readConnection(q, listeners))

readVerbs(r) ==
    IF Failed(r.err) THEN r ELSE _read_and_process_items(r, r.db.total_verbs, readVerb)

(***************************************************************************)
(* reader.py: parse                                                        *)
(***************************************************************************)
parse_v4(r) ==
    LET r1 == readInt(r)
        r2 == readInt(r1)
        r3 == readString(r2)   \* dummy
    IN  readConnections(readSuspendedTasks(readTaskQueue(readClocks(
            readVerbs(readObjects(readPlayers(
                IF Failed(r3.err) THEN r3
                ELSE [r3 EXCEPT !.db.total_objects = r1.val.i,
                                !.db.total_verbs = r2.val.i])))))))

\* parse_v17 with the clocks read before the pending finalizations
parse_v17_clocks_first(r) ==
    LET total_objects(r2) ==
            IF Failed(r2.err) THEN r2 ELSE [r2 EXCEPT !.db.total_objects = r2.val.i]
        total_verbs(r5) ==
            IF Failed(r5.err) THEN r5 ELSE [r5 EXCEPT !.db.total_verbs = r5.val.i]
        anons(r3) == IF r.db.version.i >= DBV_Anon THEN readAnonObjects(r3) ELSE r3
    IN  readVerbs(total_verbs(readInt(anons(readObjects(total_objects(readInt(
            readConnections(readInterruptedTasks(readSuspendedTasks(
                readTaskQueue(readPending(readClocks(readPlayers(r))))))))))))))

parse_v17(r) ==
    LET total_objects(r2) ==
            IF Failed(r2.err) THEN r2 ELSE [r2 EXCEPT !.db.total_objects = r2.val.i]
        total_verbs(r5) ==
            IF Failed(r5.err) THEN r5 ELSE [r5 EXCEPT !.db.total_verbs = r5.val.i]
        anons(r3) == IF r.db.version.i >= DBV_Anon THEN readAnonObjects(r3) ELSE r3
    IN  readVerbs(total_verbs(readInt(anons(readObjects(total_objects(readInt(
            readConnections(readInterruptedTasks(readSuspendedTasks(
                readTaskQueue(readClocks(readPending(readPlayers(r))))))))))))))

\* parse with the v17 grammar chosen for every version from 17 on
parse_from17(r) ==
    LET r1 == readString([r EXCEPT !.db = MooDatabase])
        r2 == [r1 EXCEPT !.db.versionstring = r1.val]
    IN  IF ~versionRe(r1.val.s) THEN parse_error(r2, "Invalid version string")
        ELSE LET version == IntOfTok(r1.val.s[6])
                 r3 == [r2 EXCEPT !.db.version = IntV(version), !.val = IntV(version)]
             IN  IF version = 4 THEN r3
                 ELSE IF version >= 17 THEN r3
                 ELSE parse_error(r3, "Unknown db version")

\* parse up to its match statement: the version line and the choice of the
\* grammar.  val is the version whose grammar parse goes on with (parse_v4
\* for 4, parse_v17 for 17)
parse(r) ==
    LET r1 == readString([r EXCEPT !.db = MooDatabase])
        r2 == [r1 EXCEPT !.db.versionstring = r1.val]
    IN  IF ~versionRe(r1.val.s) THEN parse_error(r2, "Invalid version string")
        ELSE LET version == IntOfTok(r1.val.s[6])
                 r3 == [r2 EXCEPT !.db.version = IntV(version), !.val = IntV(version)]
             IN  IF version = 4 THEN r3
                 ELSE IF version = 17 THEN r3
                 ELSE parse_error(r3, "Unknown db version")

(***************************************************************************)
(* writer.py: the database                                                 *)
(***************************************************************************)
\* template.format(...) of a line of {...:d} fields followed by fixed words
FormatD(w, fields, words) ==
    LET bad == {j \in 1 .. Len(fields) : fields[j].t \notin IntLike} IN
    IF Failed(w.err) THEN w
    ELSE IF bad = {} THEN write(w, [j \in 1 .. Len(fields) |-> FmtInt(fields[j].i)] \o words)
    ELSE LET first == CHOOSE j \in bad : \A q \in bad : j <= q IN
         IF fields[first].t \in {"str", "float"} THEN wraise(w, "ValueError")
         ELSE wraise(w, "TypeError")

\* flags.value, perms.value
FlagsValue(flags) == IntV(flags.i)

\* for item in collection: writer(item); the parameter writer is the infix
\* operator **: w ** item is writer(item) on the writer state w
writeItems(w, collection, _ ** _) ==
    LET done[n \in 0 .. Len(collection)] ==
            IF n = 0 THEN w ELSE (done[n - 1]) ** (collection[n])
    IN  done[Len(collection)]

\* template is the words after "{count:d}", <<>> for no template
writeCollection(w, collection, template, _ ** _) ==
    writeItems(IF template = <<>> THEN writeInt(w, IntV(Len(collection)))
               ELSE write(w, <<FmtInt(Len(collection))>> \o template),
               collection, **)

writeVerbMetadata(w, verb) ==
    writeInt(writeInt(writeInt(writeString(w, verb.name), verb.owner), verb.perms),
             verb.preps)

write_propdef(w, prop) ==
    writeInt(writeInt(writeValue(w, prop.value), prop.owner), FlagsValue(prop.perms))

write_properties(w, obj) ==
    writeCollection(writeCollection(w, obj.propnames, <<>>, writeString),
                    obj.propdefs, <<>>, write_propdef)

writeObject(w, obj) ==
    LET obj_num == obj.id IN
    IF Failed(w.err) THEN w
    ELSE IF obj.recycled THEN write(w, <<"#">> \o PyStr(obj_num) \o <<"recycled">>)
    ELSE LET w1 == write(w, <<"#">> \o PyStr(obj_num))
             w2 == writeString(w1, obj.name)
             w3 == writeInt(w2, FlagsValue(obj.flags))
             w4 == writeInt(w3, obj.owner)
             w5 == writeValue(w4, obj.location)
             w6 == writeValue(w5, obj.last_move)
             w7 == writeValue(w6, obj.contents)
             w8 == IF Len(obj.parents.xs) = 1 THEN writeValue(w7, obj.parents.xs[1])
                   ELSE writeValue(w7, obj.parents)
             w9 == writeValue(w8, obj.children)
         IN  write_properties(writeCollection(w9, obj.verbs, <<>>, writeVerbMetadata), obj)

\* for line in code: self.writeString(line); then "."
RECURSIVE writeCodeLines(_, _, _)
writeCodeLines(w, code, n) ==
    IF Failed(w.err) THEN w
    ELSE IF n > Len(code) THEN write(w, <<".">>)
    ELSE writeCodeLines(writeString(w, code[n]), code, n + 1)
writeCode(w, code) ==
    IF Failed(w.err) THEN w
    ELSE IF code.t # "list" THEN wraise(w, "TypeError")
    ELSE writeCodeLines(w, code.xs, 1)

\* for name, value in env.items(): writeString(name); writeValue(value)
RECURSIVE writeRtEnvItems(_, _, _)
writeRtEnvItems(w, kvs, n) ==
    IF Failed(w.err) \/ 2 * n > Len(kvs) THEN w
    ELSE writeRtEnvItems(writeValue(writeString(w, kvs[2 * n - 1]), kvs[2 * n]), kvs, n + 1)
writeRtEnv(w, env) ==
    writeRtEnvItems(write(w, <<FmtInt(Len(env.xs) \div 2), "variables">>), env.xs, 1)

writeActivationAsPI(w, activation) ==
    LET w1 == writeValue(w, IntV(-111))
        w2 == writeValue(w1, activation.this)
        w3 == writeValue(w2, activation.vloc)
        w4 == writeInt(w3, activation.threaded)
        \* templates.activation_header.format(**asdict(activation))
        w5 == FormatD(w4, <<activation.this, activation.unused1, activation.unused2,
                            activation.player, activation.unused3, activation.programmer,
                            activation.vloc, activation.unused4, activation.debug>>, <<>>)
        w6 == write(write(write(write(w5, <<"No">>), <<"More">>), <<"Parse">>), <<"Infos">>)
    IN  writeString(writeString(w6, activation.verb), activation.verbname)

writeActivation(w, activation) ==
    LET func_name(w8) ==
            IF activation.bi_func.i # 0 THEN writeString(w8, activation.func_name) ELSE w8
        w1 == write(w, <<"language", "version", FmtInt(17)>>)
        w2 == writeCode(w1, activation.code)
        w3 == writeRtEnv(w2, activation.rtEnv)
        w4 == write(w3, <<FmtInt(Len(activation.stack.xs)), "rt_stack", "slots", "in", "use">>)
        w5 == writeValues(w4, activation.stack.xs, 1)
        w6 == writeActivationAsPI(w5, activation)
        w7 == writeValue(w6, activation.temp)
    IN  func_name(FormatD(w7, <<activation.pc, activation.bi_func, activation.error>>, <<>>))

\* for i in range(vm.top + 1): self.writeActivation(vm.stack[i])
RECURSIVE writeVMStack(_, _, _)
writeVMStack(w, vm, i) ==
    IF Failed(w.err) \/ i >= vm.top.i + 1 THEN w
    ELSE IF i + 1 > Len(vm.stack) THEN wraise(w, "IndexError")
    ELSE writeVMStack(writeActivation(w, vm.stack[i + 1]), vm, i + 1)

writeVM(w, vm) ==
    LET w1 == writeValue(w, vm.locals)
        w2 == FormatD(w1, <<vm.top, vm.vector, vm.funcId, vm.maxStackframes>>, <<>>)
    IN  writeVMStack(w2, vm, 0)

writeQueuedTask(w, task) ==
    LET w1 == FormatD(w, <<task.unused, task.firstLineno, task.st, task.id>>, <<>>) IN
    writeCode(writeRtEnv(writeActivationAsPI(w1, task.activation), task.rtEnv), task.code)

\* "{start_time:d} {id:d} {value}".format(**asdict(task))
writeSuspendedTask(w, task) ==
    writeVM(FormatD(w, <<task.start_time, task.id>>, PyStr(task.value)), task.vm)

\* "{id:d} {status}".format(**asdict(task))
writeInterruptedTask(w, task) ==
    writeVM(FormatD(w, <<task.id>>, PyStr(task.status)), task.vm)

\* f"{connection.who} {connection.listener}"
writeConnection(w, connection) ==
    write(w, PyStr(connection.who) \o PyStr(connection.listener))

writePlayers(w) == writeCollection(w, w.db.players, <<>>, writeString)

writeFinalization(w, v) == writeValue(w, v)

writePending(w) ==
    writeCollection(w, w.db.finalizations, <<"values", "pending", "finalization">>,
                    writeFinalization)

writeClocks(w) == writeCollection(w, w.db.clocks, <<"clocks">>, writeString)

writeTaskQueue(w) ==
    writeCollection(w, w.db.queuedTasks, <<"queued", "tasks">>, writeQueuedTask)

writeSuspendedTasks(w) ==
    writeCollection(w, w.db.suspendedTasks, <<"suspended", "tasks">>, writeSuspendedTask)

writeInterruptedTasks(w) ==
    writeCollection(w, w.db.interruptedTasks, <<"interrupted", "tasks">>,
                    writeInterruptedTask)

writeConnections(w) ==
    writeCollection(w, w.db.connections, <<"active", "connections", "with", "listeners">>,
                    writeConnection)

\* [o for o in self.db.objects.values() if o.anon = anon]
RECURSIVE ObjectsWhere(_, _, _)
ObjectsWhere(objects, n, anon) ==
    IF n > Len(objects) THEN <<>>
    ELSE (IF objects[n].obj.anon = anon THEN <<objects[n].obj>> ELSE <<>>)
         \o ObjectsWhere(objects, n + 1, anon)

writeObjects(w) == writeCollection(w, ObjectsWhere(w.db.objects, 1, FALSE), <<>>, writeObject)
writeAnons(w) == writeCollection(w, ObjectsWhere(w.db.objects, 1, TRUE), <<>>, writeObject)

\* all_verbs(): the verbs of every object, in the order of db.objects
RECURSIVE all_verbs(_, _)
all_verbs(objects, n) ==
    IF n > Len(objects) THEN <<>> ELSE objects[n].obj.verbs \o all_verbs(objects, n + 1)

\* object.verbs.index(verb): the first verb equal to verb, field by field
VerbIndex(verbs, verb) ==
    IF \E j \in 1 .. Len(verbs) : verbs[j] = verb
    THEN (CHOOSE j \in 1 .. Len(verbs) :
              verbs[j] = verb /\ \A q \in 1 .. j - 1 : verbs[q] # verb) - 1
    ELSE -1

writeVerb(w, verb) ==
    LET objnum == verb.object IN
    IF Failed(w.err) THEN w
    ELSE IF ~HasKey(w.db.objects, objnum) THEN wraise(w, "KeyError")
    ELSE LET object == ObjGet(w.db.objects, objnum)
             index == VerbIndex(object.verbs, verb)
         IN  IF index = -1 THEN wraise(w, "ValueError")
             ELSE writeCode(write(w, <<"#">> \o PyStr(objnum) \o <<":", FmtInt(index)>>),
                            verb.code)

RECURSIVE writeVerbItems(_, _, _)
writeVerbItems(w, verbs, n) ==
    IF Failed(w.err) \/ n > Len(verbs) THEN w
    ELSE writeVerbItems(writeVerb(w, verbs[n]), verbs, n + 1)

writeVerbs(w) ==
    LET verbs == SelectSeq(all_verbs(w.db.objects, 1), LAMBDA verb : verb.code # NoneV) IN
    writeVerbItems(writeInt(w, IntV(Len(verbs))), verbs, 1)

writeDatabase(w) ==
    LET w1 == write(w, <<"**", "LambdaMOO", "Database,", "Format", "Version",
                         FmtInt(17), "**">>)
        w2 == writeConnections(writeInterruptedTasks(writeSuspendedTasks(
                  writeTaskQueue(writeClocks(writePending(writePlayers(w1)))))))
    IN  writeVerbs(writeInt(writeAnons(writeObjects(w2)), IntV(0)))

\* the line feed, a token of its own in a string that holds one
LF == "\n"
\* the lines a text written with one call of write makes in the file: every
\* LF inside it ends a line (the text is kept without the LF that closes it)
SplitLines(text) ==
    LET cuts == <<0>> \o SelectSeq([j \in 1 .. Len(text) |-> IF text[j] = LF THEN j ELSE 0],
                                   LAMBDA j : j > 0) \o <<Len(text) + 1>>
    IN  [n \in 1 .. Len(cuts) - 1 |-> SubSeq(text, cuts[n] + 1, cuts[n + 1] - 1)]
\* the lines of the texts written, from the lo-th to the hi-th
RECURSIVE Lines(_, _, _)
Lines(texts, lo, hi) ==
    IF lo > hi THEN <<>>
    ELSE IF lo = hi THEN SplitLines(texts[lo])
    ELSE Lines(texts, lo, (lo + hi) \div 2) \o Lines(texts, (lo + hi) \div 2 + 1, hi)
\* the lines of the file after the writer w: what readline() will return
FileLines(w) == Only({ [w1 EXCEPT !.out = Lines(w1.out, 1, Len(w1.out))] : w1 \in {w} })

dump(db_) == FileLines(writeDatabase(Writer(db_, <<>>)))

(***************************************************************************)
(* Specification of the value codec: a value is encoded by                 *)
(* Writer.writeValue and the lines written are decoded by Reader.readValue *)
(***************************************************************************)
MaxOps == 2

X == StrV(<<"x">>)
Y == StrV(<<"y">>)
Z == StrV(<<"z">>)

NoCall == [op |-> "", obj_id |-> NoneV, name |-> NoneV, value |-> NoneV]

\* the values tried: every variant, lists and dicts of them, one nesting
Scalars ==
    {IntV(0), IntV(1), IntV(-1), StrV(<<"a">>), StrV(<<>>), StrV(<<"a", "b">>),
     StrV(<<"1">>), StrV(<<"a", LF, "b">>), ObjNum(1), Err(1), BoolV(TRUE), BoolV(FALSE), NoneV, ClearV,
     _Catch(1), Anon(1), WaifReference(0)}
Keys == {IntV(0), StrV(<<"a">>), ObjNum(1), NoneV}
Lists == {ListV(<<>>)} \cup {ListV(<<a>>) : a \in Scalars}
             \cup {ListV(<<a, b>>) : a \in Scalars, b \in Scalars}
Dicts == {DictV(<<>>)} \cup {DictV(<<k, a>>) : k \in Keys, a \in Scalars}
             \cup {DictV(<<kj[1], IntV(1), kj[2], StrV(<<"a">>)>>) :
                     kj \in {q \in Keys \X Keys : ~PyEq(q[1], q[2])}}
Nested == {ListV(<<a, b>>) : a \in {ListV(<<>>), ListV(<<IntV(1)>>), DictV(<<X, IntV(1)>>)},
                             b \in {IntV(1), ListV(<<ClearV, NoneV>>)}}
              \cup {DictV(<<k, a>>) : k \in Keys, a \in {ListV(<<IntV(1), X>>), DictV(<<>>)}}
Values == Scalars \cup Lists \cup Dicts \cup Nested

ValueInit ==
    /\ file = <<>> /\ line = 0 /\ db = MooDatabase /\ err = NoErr
    /\ out = <<>> /\ werr = NoErr /\ db1 = MooDatabase /\ ret = NoneV
    /\ last = NoCall /\ before = <<>> /\ nops = 0 /\ phase = 1
    /\ pc = "value"
    /\ val \in Values

\* writeValue(v) on an empty sink
EncodeValue ==
    /\ pc = "value"
    /\ LET w == FileLines(writeValue(Writer(db, <<>>), val)) IN
       /\ out' = w.out
       /\ werr' = w.err
    /\ pc' = "encoded"
    /\ UNCHANGED <<file, line, db, err, db1, ret, last, before, nops, val, phase>>

\* readValue(db) on the lines written
DecodeValue ==
    /\ pc = "encoded"
    /\ ~Failed(werr)
    /\ LET r == readValue(Reader(out, 0, db), NoneV) IN
       /\ ret' = r.val
       /\ err' = r.err
       /\ line' = r.line
       /\ db' = r.db
    /\ pc' = "decoded"
    /\ UNCHANGED <<file, out, werr, db1, last, before, nops, val, phase>>

ValueNext == EncodeValue \/ DecodeValue

ValueSpec == ValueInit /\ [][ValueNext]_vars

(***************************************************************************)
(* Specification of the property operations on a database built through    *)
(* the constructors: set_property, get_property, rename_property           *)
(***************************************************************************)
\* the object graphs: parent[i] is the parent of object i (-1 for the root),
\* names[i] the property names object i defines
Shapes ==
    { [parent |-> <<-1, 1, 2>>, names |-> << <<X>>, <<>>, <<>> >>],
      [parent |-> <<-1, 1, 2>>, names |-> << <<X>>, <<Y>>, <<>> >>],
      [parent |-> <<-1, 1, 1>>, names |-> << <<X, Y>>, <<>>, <<>> >>],
      [parent |-> <<-1, 1, 1>>, names |-> << <<X>>, <<Y>>, <<>> >>] }

SlotValues == {IntV(1), ClearV}

RECURSIVE SlotCount(_, _)
SlotCount(shape, i) ==
    IF i = -1 THEN 0 ELSE Len(shape.names[i]) + SlotCount(shape, shape.parent[i])

ChildrenOf(shape, i) ==
    LET RECURSIVE From(_)
        From(j) == IF j > Len(shape.parent) THEN <<>>
                   ELSE (IF shape.parent[j] = i THEN <<IntV(j)>> ELSE <<>>) \o From(j + 1)
    IN  From(1)

Build(shape, values) ==
    [i \in 1 .. Len(shape.parent) |->
       [key |-> IntV(i),
        obj |-> [MooObject(NoneV, IntV(i), StrV(<<"o">>), IntV(0), ObjNum(1), ObjNum(-1),
                           ListV(<<IntV(shape.parent[i])>>))
                   EXCEPT !.children = ListV(ChildrenOf(shape, i)),
                          !.propnames = shape.names[i],
                          !.propdefs = [j \in 1 .. Len(values[i]) |->
                                          Propdef(values[i][j], ObjNum(1), IntV(0))]]]]

PropInit ==
    /\ file = <<>> /\ line = 0 /\ err = NoErr
    /\ out = <<>> /\ werr = NoErr /\ db1 = MooDatabase /\ ret = NoneV
    /\ last = NoCall /\ before = <<>> /\ nops = 0 /\ val = NoneV /\ phase = 1
    /\ pc = "api"
    /\ \E shape \in Shapes :
         \E v1 \in [1 .. SlotCount(shape, 1) -> SlotValues],
            v2 \in [1 .. SlotCount(shape, 2) -> SlotValues],
            v3 \in [1 .. SlotCount(shape, 3) -> SlotValues] :
           db = [MooDatabase EXCEPT !.objects = Build(shape, <<v1, v2, v3>>)]

ObjIds == {IntV(1), IntV(2), IntV(3), IntV(9)}
PropNames == {X, Y, Z}
NewValues == {IntV(2), IntV(3), ClearV}

SetProperty(obj_id, prop_name, value) ==
    /\ pc \in {"api", "loaded"}
    /\ nops < MaxOps
    /\ LET st == set_property(db.objects, obj_id, prop_name, value) IN
       /\ db' = [db EXCEPT !.objects = st.objects]
       /\ err' = st.err
       /\ ret' = NoneV
    /\ last' = [op |-> "set_property", obj_id |-> obj_id, name |-> prop_name, value |-> value]
    /\ before' = db.objects
    /\ nops' = nops + 1
    /\ UNCHANGED <<file, line, pc, out, werr, db1, val, phase>>

GetProperty(obj_id, prop_name) ==
    /\ pc \in {"api", "loaded"}
    /\ nops < MaxOps
    /\ LET st == get_property(db.objects, obj_id, prop_name) IN
       /\ err' = st.err
       /\ ret' = st.ret
    /\ last' = [op |-> "get_property", obj_id |-> obj_id, name |-> prop_name, value |-> NoneV]
    /\ before' = db.objects
    /\ nops' = nops + 1
    /\ UNCHANGED <<file, line, db, pc, out, werr, db1, val, phase>>

RenameProperty(obj_id, old_name, new_name) ==
    /\ pc \in {"api", "loaded"}
    /\ nops < MaxOps
    /\ LET st == rename_property(db.objects, obj_id, old_name, new_name) IN
       /\ db' = [db EXCEPT !.objects = st.objects]
       /\ err' = st.err
       /\ ret' = NoneV
    /\ last' = [op |-> "rename_property", obj_id |-> obj_id, name |-> old_name,
                value |-> new_name]
    /\ before' = db.objects
    /\ nops' = nops + 1
    /\ UNCHANGED <<file, line, pc, out, werr, db1, val, phase>>

PropNext ==
    \/ \E o \in ObjIds, n \in PropNames, v \in NewValues : SetProperty(o, n, v)
    \/ \E o \in ObjIds \ {IntV(9)}, n \in PropNames : GetProperty(o, n)
    \/ \E o \in ObjIds \ {IntV(9)}, n \in PropNames :
         \E m \in PropNames \ {n} : RenameProperty(o, n, m)

PropSpec == PropInit /\ [][PropNext]_vars

(***************************************************************************)
(* Specification of the property operations and of the ancestors walk on   *)
(* databases whose parents or children lists hold a cycle                  *)
(***************************************************************************)
\* parent[i] is the parent of object i, children[i] its children list
CycleShapes ==
    { [parent |-> <<2, 1>>, children |-> << <<2>>, <<1>> >>, names |-> << <<X>>, <<>> >>],
      [parent |-> <<1, 1>>, children |-> << <<1, 2>>, <<>> >>, names |-> << <<>>, <<Y>> >>],
      [parent |-> <<-1, 1>>, children |-> << <<2>>, <<1>> >>, names |-> << <<X>>, <<>> >>],
      [parent |-> <<-1, 1>>, children |-> << <<2>>, <<2>> >>, names |-> << <<X>>, <<X>> >>],
      [parent |-> <<2, 1>>, children |-> << <<>>, <<>> >>, names |-> << <<>>, <<>> >>] }

CycleBuild(shape, values) ==
    [i \in 1 .. Len(shape.parent) |->
       [Build(shape, values)[i] EXCEPT
          !.obj.children = ListV([j \in 1 .. Len(shape.children[i]) |->
                                    IntV(shape.children[i][j])])]]

CycleInit ==
    /\ file = <<>> /\ line = 0 /\ err = NoErr
    /\ out = <<>> /\ werr = NoErr /\ db1 = MooDatabase /\ ret = NoneV
    /\ last = NoCall /\ before = <<>> /\ nops = 0 /\ val = NoneV /\ phase = 1
    /\ pc = "api"
    /\ \E shape \in CycleShapes :
         \E v1 \in [1 .. 1 -> SlotValues], v2 \in [1 .. 1 -> SlotValues] :
           db = [MooDatabase EXCEPT !.objects = CycleBuild(shape, <<v1, v2>>)]

\* list(db.ancestors(db.objects[obj_id]))
AncestorsWalk(obj_id) ==
    /\ pc = "api"
    /\ nops < MaxOps
    /\ HasKey(db.objects, obj_id)
    /\ LET walk == ancestors(db.objects, ObjGet(db.objects, obj_id), 1) IN
       /\ err' = walk.err
       /\ ret' = ListV(walk.yielded)
    /\ last' = [op |-> "ancestors", obj_id |-> obj_id, name |-> NoneV, value |-> NoneV]
    /\ before' = db.objects
    /\ nops' = nops + 1
    /\ UNCHANGED <<file, line, db, pc, out, werr, db1, val, phase>>

CycleIds == {IntV(1), IntV(2)}
CycleNames == {X, Y}

CycleNext ==
    \/ \E o \in CycleIds, n \in CycleNames, v \in NewValues : SetProperty(o, n, v)
    \/ \E o \in CycleIds, n \in CycleNames : GetProperty(o, n)
    \/ \E o \in CycleIds, n \in CycleNames :
         \E m \in CycleNames \ {n} : RenameProperty(o, n, m)
    \/ \E o \in CycleIds : AncestorsWalk(o)

CycleSpec == CycleInit /\ [][CycleNext]_vars

(***************************************************************************)
(* Specification of load and dump: a file is loaded (reader.load), property *)
(* calls are made on the database, it is dumped (writer.dump) and the text  *)
(* written is loaded again, as rw.py does                                   *)
(***************************************************************************)
\* the version line
Hdr(v) == << <<"**", "LambdaMOO", "Database,", "Format", "Version", v, "**">> >>

RECURSIVE Cat(_)
Cat(parts) == IF parts = <<>> THEN <<>> ELSE Head(parts) \o Cat(Tail(parts))

\* the lines of read_activation_as_pi: four values and the header, the four
\* unused strings, verb and verbname
AsPI ==
    << <<"0">>, <<"-111">>, <<"1">>, <<"1">>, <<"1">>, <<"1">>, <<"0">>,
       <<"1", "0", "0", "1", "0", "1", "1", "0", "0">>,
       <<"No">>, <<"More">>, <<"Parse">>, <<"Infos">>, <<"v">>, <<"v">> >>
\* one stack frame of a VM
Frame ==
    << <<"language", "version", "17">>, <<"return;">>, <<".">>, <<"1", "variables">>,
       <<"x">>, <<"0">>, <<"1">>, <<"1", "rt_stack", "slots", "in", "use">>,
       <<"2">>, <<"a">> >>
    \o AsPI \o << <<"6">>, <<"1", "1", "0">>, <<"f">> >>
\* a VM: the task local value, the header with top, and top + 1 frames
VMLines(top, frames) == << <<"10">>, <<"0">>, <<top, "0", "0", "1">> >> \o frames

Players == { << <<"0">> >>, << <<"1">>, <<"2">> >>, << <<"-1">> >>, << <<"x">> >>,
             << <<"1">>, <<"x">> >> }
Pending ==
    LET count(n) == <<n, "values", "pending", "finalization">> IN
    { << count("0") >>,
      << count("1"), <<"0">>, <<"1">> >>,
      << count("1"), <<"8">>, <<"1">> >>,
      << count("1"), <<"11">> >>,
      << count("1"), <<"13">>, <<"r", "0">>, <<".">> >>,
      << count("1"), <<"13">>, <<"c", "0">>, <<"1">>, <<"1">>, <<"0">>, <<"-1">>, <<".">> >>,
      << count("1"), <<"13">>, <<"c", "0">>, <<"1">>, <<"2">>, <<"1">>, <<"0">>, <<"0">>,
         <<"5">>, <<"96">>, <<".">> >>,
      << count("1"), <<"13">>, <<"0">> >>,
      << count("2"), <<"13">>, <<"r", "0">>, <<".">>, <<"13">>, <<"r", "1">>, <<".">> >>,
      << count("1"), <<"4">>, <<"2">>, <<"5">>, <<"12">>, <<"1">> >>,
      << count("1"), <<"12">>, <<"-1">> >>,
      << <<"0", "values">> >>,
      << <<"x", "values", "pending", "finalization">> >> }
Clocks == { << <<"0", "clocks">> >>, << <<"1", "clocks">>, <<"c">> >>, << <<"clocks">> >>,
            << <<"-1", "clocks">> >> }
TaskQueue ==
    { << <<"0", "queued", "tasks">> >>,
      << <<"1", "queued", "tasks">>, <<"0", "1", "2", "3">> >> \o AsPI
         \o << <<"0", "variables">>, <<"return;">>, <<".">> >>,
      << <<"1", "queued", "tasks">>, <<"0", "1", "2">> >>,
      << <<"-1", "queued", "tasks">> >>,
      << <<"1", "queued", "tasks">>, <<"0", "1", "2", "3">>, <<"0">>, <<"-111">>,
         <<"2">>, <<"a">>, <<"1">>, <<"1">>, <<"0">>,
         <<"1", "0", "0", "1", "0", "1", "1", "0", "0">>,
         <<"No">>, <<"More">>, <<"Parse">>, <<"Infos">>, <<"v">>, <<"v">>,
         <<"0", "variables">>, <<".">> >> }
Suspended ==
    LET count(n) == <<n, "suspended", "tasks">> IN
    { << count("0") >>,
      << count("1"), <<"1", "2", "0">>, <<"5">> >> \o VMLines("-1", <<>>),
      << count("1"), <<"1", "2", "0">>, <<"3">> >> \o VMLines("0", Frame),
      << count("1"), <<"1", "2", "6">> >> \o VMLines("-1", <<>>),
      << count("1"), <<"1", "2", "5">> >> \o VMLines("-1", <<>>),
      << count("1"), <<"1", "2", "0">>, <<"0">> >> \o VMLines("-2", <<>>),
      << count("1"), <<"1", "2">> >> \o VMLines("-1", <<>>),
      << count("1"), <<"1", "2", "x">> >> \o VMLines("-1", <<>>),
      << count("1"), <<"1", "2", "0">>, <<"0">>, <<"10">>, <<"0">>, <<"0", "0", "1">> >> }
Interrupted ==
    LET count(n) == <<n, "interrupted", "tasks">> IN
    { << count("0") >>,
      << count("1"), <<"1", "interrupted">> >> \o VMLines("-1", <<>>),
      << count("1"), <<"1", "interrupted">> >> \o VMLines("-3", <<>>),
      << count("1"), <<"-1", "interrupted">> >> \o VMLines("-1", <<>>),
      << count("1"), <<"1">> >> \o VMLines("-1", <<>>) }
Connections ==
    { << <<"0", "active", "connections">> >>,
      << <<"0", "active", "connections", "with", "listeners">> >>,
      << <<"1", "active", "connections">>, <<"2">> >>,
      << <<"1", "active", "connections", "with", "listeners">>, <<"2", "1">> >>,
      << <<"1", "active", "connections", "with", "listeners">>, <<"2">> >>,
      << <<"1", "active", "connections">>, <<"2", "1">> >>,
      << <<"0", "active", "connections", "with">> >>,
      << <<"-1", "active", "connections">> >> }
\* an object block of the v5+ format, with its verbs and properties
ObjectLines(name, verbs, props) ==
    << <<"#", "1">>, name, <<"0">>, <<"2">>, <<"1">>, <<"-1">>, <<"0">>, <<"0">>,
       <<"4">>, <<"0">>, <<"1">>, <<"-1">>, <<"4">>, <<"0">> >> \o verbs \o props
NoVerbs == << <<"0">> >>
OneVerb == << <<"1">>, <<"look">>, <<"2">>, <<"0">>, <<"0">> >>
NoProps == << <<"0">>, <<"0">> >>
OneProp == << <<"1">>, <<"x">>, <<"1">>, <<"0">>, <<"1">>, <<"2">>, <<"0">> >>
\* one property name declared, and no propdef
NameOnly == << <<"1">>, <<"x">>, <<"0">> >>
Objects ==
    { << <<"0">> >>,
      << <<"1">> >> \o ObjectLines(<<"o">>, NoVerbs, OneProp),
      << <<"1">> >> \o ObjectLines(<<"o">>, OneVerb, NoProps),
      << <<"1">> >> \o ObjectLines(<<"1">>, NoVerbs, NoProps),
      << <<"1">> >> \o ObjectLines(<<"o">>, NoVerbs, NameOnly),
      << <<"1">>, <<"#", "1", "recycled">> >>,
      << <<"1">>, <<"1">> >>,
      << <<"1">>, <<"#", "x">> >>,
      << <<"x">> >> }
Anons ==
    { << <<"0">> >>,
      << <<"1">> >> \o ObjectLines(<<"a">>, NoVerbs, NoProps) \o << <<"0">> >>,
      << <<"1">>, <<"#", "2", "recycled">>, <<"0">> >>,
      << <<"-1">>, <<"0">> >> }
Verbs ==
    { << <<"0">> >>,
      << <<"1">>, <<"#", "1", ":", "0">>, <<"return;">>, <<".">> >>,
      << <<"1">>, <<"#", "1", "0">>, <<".">> >>,
      << <<"1">>, <<"#", "1", ":", "x">>, <<".">> >>,
      << <<"1">>, <<"#", "1", ":", "0">>, <<"return;">> >> }

\* the sections of a version 17 file, in the order of parse_v17
Sections ==
    <<Players, Pending, Clocks, TaskQueue, Suspended, Interrupted, Connections,
      Objects, Anons, Verbs>>
\* the file whose other sections are empty
Base(objects) ==
    << << <<"0">> >>, << <<"0", "values", "pending", "finalization">> >>,
       << <<"0", "clocks">> >>, << <<"0", "queued", "tasks">> >>,
       << <<"0", "suspended", "tasks">> >>, << <<"0", "interrupted", "tasks">> >>,
       << <<"0", "active", "connections">> >>, objects, << <<"0">> >>, << <<"0">> >> >>
WithObject == << <<"1">> >> \o ObjectLines(<<"o">>, OneVerb, OneProp)

\* version 17 files: one section varied at a time
Files17 ==
    UNION {{Hdr("17") \o Cat([Base(objects) EXCEPT ![k] = o]) : o \in Sections[k]} :
              k \in 1 .. Len(Sections), objects \in {<< <<"0">> >>, WithObject}}

\* version 4 files: total_objects, total_verbs, dummy, and the sections of parse_v4
Files4 ==
    LET tail == << <<"0", "clocks">>, <<"0", "queued", "tasks">>,
                   <<"0", "suspended", "tasks">>, <<"0", "active", "connections">> >>
    IN  { Hdr("4") \o << <<"0">>, <<"0">>, <<"d">>, <<"0">> >> \o tail,
          Hdr("4") \o << <<"0">>, <<"0">>, <<"d">>, <<"1">>, <<"2">> >> \o tail,
          Hdr("4") \o << <<"1">>, <<"0">>, <<"d">>, <<"0">>,
                         <<"#", "1">>, <<"o">>, <<>>, <<"0">>, <<"2">>, <<"-1">>, <<"-1">>,
                         <<"-1">>, <<"-1">>, <<"-1">>, <<"-1">>, <<"0">>, <<"0">>, <<"0">> >>
             \o tail,
          Hdr("4") \o << <<"1">>, <<"0">>, <<"d">>, <<"0">>, <<"#", "1", "recycled">> >> \o tail,
          Hdr("4") \o << <<"0">>, <<"1">>, <<"d">>, <<"0">>, <<"#", "1", ":", "0">>, <<".">> >>
             \o tail,
          Hdr("4") \o << <<"0">>, <<"0">>, <<"d">>, <<"0">>, <<"0", "clocks">>,
                         <<"1", "queued", "tasks">>, <<"0", "1", "2", "3">>, <<"0">>, <<"0">>,
                         <<"1", "0", "0", "1", "0", "1", "1", "0", "0">>,
                         <<"No">>, <<"More">>, <<"Parse">>, <<"Infos">>, <<"v">>, <<"v">>,
                         <<"0", "variables">>, <<".">>,
                         <<"1", "suspended", "tasks">>, <<"1", "2", "0">>, <<"0">>,
                         <<"-1", "0", "0", "1">>, <<"0", "active", "connections">> >>,
          Hdr("4") \o << <<"x">> >>,
          Hdr("4") }

\* files whose first line names no supported version
FilesBad ==
    { <<>>, << <<"x">> >>, Hdr("x"), Hdr("18") \o Cat(Base(<< <<"0">> >>)),
      Hdr("5") \o Cat(Base(<< <<"0">> >>)), Hdr("0"), Hdr("-1"),
      << <<"**", "LambdaMOO", "Database,", "Format", "Version", "17">> >>,
      << <<"LambdaMOO", "Database,", "Format", "Version", "17", "**">>, <<"0">> >>,
      << <<"junk">> >> \o Hdr("17") }

\* every file cut short: the end of the input inside a section
Prefixes(f) == {SubSeq(f, 1, n) : n \in 1 .. Len(f)}
Rich ==
    Hdr("17") \o Cat(<< << <<"1">>, <<"2">> >>,
                        << <<"1", "values", "pending", "finalization">>, <<"0">>, <<"1">> >>,
                        << <<"1", "clocks">>, <<"c">> >>,
                        << <<"1", "queued", "tasks">>, <<"0", "1", "2", "3">> >> \o AsPI
                            \o << <<"0", "variables">>, <<"return;">>, <<".">> >>,
                        << <<"1", "suspended", "tasks">>, <<"1", "2", "0">>, <<"0">> >>
                            \o VMLines("0", Frame),
                        << <<"1", "interrupted", "tasks">>, <<"1", "interrupted">> >>
                            \o VMLines("-1", <<>>),
                        << <<"1", "active", "connections", "with", "listeners">>,
                           <<"2", "1">> >>,
                        WithObject,
                        << <<"1">> >> \o ObjectLines(<<"a">>, NoVerbs, NoProps)
                            \o << <<"0">> >>,
                        << <<"0">> >> >>)

Files == Files17 \cup Files4 \cup FilesBad \cup Prefixes(Rich)

Init ==
    /\ file \in Files
    /\ line = 0 /\ db = MooDatabase /\ err = NoErr
    /\ out = <<>> /\ werr = NoErr /\ db1 = MooDatabase /\ ret = NoneV
    /\ last = NoCall /\ before = <<>> /\ nops = 0 /\ val = NoneV /\ phase = 1
    /\ pc = "start"

\* the reader r has chosen a grammar, or parse has raised
Chosen(r) ==
    /\ line' = r.line
    /\ db' = r.db
    /\ err' = r.err
    /\ pc' = IF Failed(r.err) THEN "failed"
             ELSE IF r.val.i = 4 THEN "parse_v4" ELSE "parse_v17"

\* the reader r has read the whole database, or the grammar has raised
Returned_(r) ==
    /\ line' = r.line
    /\ db' = r.db
    /\ err' = r.err
    /\ pc' = IF Failed(r.err) THEN "failed" ELSE "loaded"

\* the writer w has written the database, or has raised
Written(w) ==
    /\ out' = w.out
    /\ werr' = w.err
    /\ pc' = IF Failed(w.err) THEN "dump_failed" ELSE "dumped"

\* load: Reader(f).parse(), up to the choice of the grammar
Parse ==
    /\ pc = "start"
    /\ Chosen(parse(Reader(file, 0, db)))
    /\ UNCHANGED <<file, out, werr, db1, ret, last, before, nops, val, phase>>

Parse_v4 ==
    /\ pc = "parse_v4"
    /\ Returned_(parse_v4(Reader(file, line, db)))
    /\ UNCHANGED <<file, out, werr, db1, ret, last, before, nops, val, phase>>

Parse_v17 ==
    /\ pc = "parse_v17"
    /\ Returned_(parse_v17(Reader(file, line, db)))
    /\ UNCHANGED <<file, out, werr, db1, ret, last, before, nops, val, phase>>

\* dump(db, fp) on an empty sink
Dump ==
    /\ pc = "loaded"
    /\ phase = 1
    /\ Written(dump(db))
    /\ UNCHANGED <<file, line, db, err, db1, ret, last, before, nops, val, phase>>

\* load of the text dumped: a new Reader on it
Reload ==
    /\ pc = "dumped"
    /\ file' = out
    /\ line' = 0
    /\ db1' = db
    /\ db' = MooDatabase
    /\ err' = NoErr
    /\ phase' = 2
    /\ pc' = "start"
    /\ UNCHANGED <<out, werr, ret, last, before, nops, val>>

\* the keys and names the property calls are made with on a loaded database
LoadedIds == {StrV(<<"o">>), IntV(1)}

Next ==
    \/ Parse
    \/ Parse_v4
    \/ Parse_v17
    \/ Dump
    \/ Reload
    \/ \E o \in LoadedIds, v \in NewValues : phase = 1 /\ pc = "loaded" /\ SetProperty(o, X, v)
    \/ \E o \in LoadedIds : phase = 1 /\ pc = "loaded" /\ GetProperty(o, X)
    \/ \E o \in LoadedIds : phase = 1 /\ pc = "loaded" /\ RenameProperty(o, X, Y)

Spec == Init /\ [][Next]_vars

(***************************************************************************)
(* Specification of dump on a database built through the constructors:     *)
(* objects with verbs that carry code, anonymous objects.  The database is *)
(* dumped and the text written is loaded again.                            *)
(***************************************************************************)
\* the code of a verb: None for a verb without code, or its lines
Codes == {NoneV, ListV(<<>>), ListV(<<StrV(<<"return;">>)>>)}
\* the verbs of object k
BuiltVerbs(k) ==
    {[Verb(StrV(<<name>>), ObjNum(2), IntV(0), IntV(0), IntV(k)) EXCEPT !.code = code] :
        name \in {"look", "take"}, code \in Codes}
VerbLists(k, n) == UNION {[1 .. m -> BuiltVerbs(k)] : m \in 0 .. n}

BuiltObject(k, verbs, anon) ==
    [key |-> IntV(k),
     obj |-> [MooObject(NoneV, IntV(k), StrV(<<"o">>), IntV(0), ObjNum(1), ObjNum(-1),
                        ListV(<<>>))
                EXCEPT !.verbs = verbs, !.anon = anon]]

DumpInit ==
    /\ file = <<>> /\ line = 0 /\ err = NoErr
    /\ out = <<>> /\ werr = NoErr /\ db1 = MooDatabase /\ ret = NoneV
    /\ last = NoCall /\ before = <<>> /\ nops = 0 /\ val = NoneV /\ phase = 1
    /\ pc = "loaded"
    /\ \E verbs1 \in VerbLists(1, 2) :
         \E second \in {<<>>} \cup {<<BuiltObject(2, verbs2, anon)>> :
                                       verbs2 \in VerbLists(2, 1), anon \in BOOLEAN} :
           db = [MooDatabase EXCEPT !.version = IntV(17),
                                    !.versionstring = StrV(Hdr("17")[1]),
                                    !.objects = <<BuiltObject(1, verbs1, FALSE)>> \o second]

DumpNext == Dump \/ Reload \/ Parse \/ Parse_v17

DumpSpec == DumpInit /\ [][DumpNext]_vars

(***************************************************************************)
(* The data model of the specification, for stating the properties: the    *)
(* i-th propdef of an object is named by the i-th element of the           *)
(* concatenation, root first, of the propnames along its parent chain.     *)
(***************************************************************************)
\* the key of the (first) parent of the object stored under k, when it is stored
HasParent(objects, k) ==
    /\ Len(ObjGet(objects, k).parents.xs) > 0
    /\ HasKey(objects, ObjGet(objects, k).parents.xs[1])
ParentKey(objects, k) == ObjGet(objects, k).parents.xs[1]

\* the chain of keys from k up to its root, k first
RECURSIVE UpChain(_, _, _)
UpChain(objects, k, fuel) ==
    IF fuel = 0 \/ ~HasParent(objects, k) THEN <<k>>
    ELSE <<k>> \o UpChain(objects, ParentKey(objects, k), fuel - 1)

Ancestors(objects, k) == UpChain(objects, k, Len(objects))

\* a is an ancestor of d, or d itself
IsAncestorOrSelf(objects, a, d) ==
    \E j \in 1 .. Len(Ancestors(objects, d)) : Ancestors(objects, d)[j] = a

\* the names of all slots of the object stored under k, root first
RECURSIVE NamesDown(_, _, _)
NamesDown(objects, chain, n) ==
    IF n = 0 THEN <<>>
    ELSE ObjGet(objects, chain[n]).propnames \o NamesDown(objects, chain, n - 1)
AllNames(objects, k) ==
    NamesDown(objects, Ancestors(objects, k), Len(Ancestors(objects, k)))

HasSlot(objects, k, name) ==
    /\ ListIndex(AllNames(objects, k), name) # -1
    /\ ListIndex(AllNames(objects, k), name) < Len(ObjGet(objects, k).propdefs)
\* the value stored in the slot of k that is named name
SlotValue(objects, k, name) ==
    ObjGet(objects, k).propdefs[ListIndex(AllNames(objects, k), name) + 1].value

\* Clear as the specification means it: the slot inherits
HoldsClear(v) == v = ClearV \/ v = ClearClass

\* the value of the nearest object, from k upwards, whose slot is not Clear
RECURSIVE NearestValue(_, _, _, _)
NearestValue(objects, chain, n, name) ==
    IF n > Len(chain) THEN ClearV
    ELSE IF HasSlot(objects, chain[n], name)
            /\ ~HoldsClear(SlotValue(objects, chain[n], name))
         THEN SlotValue(objects, chain[n], name)
    ELSE NearestValue(objects, chain, n + 1, name)
Inherited(objects, k, name) == NearestValue(objects, Ancestors(objects, k), 1, name)

StoredKeys(objects) == {objects[j].key : j \in 1 .. Len(objects)}

\* every object from d up to, and excluding, a held Clear in its slot
ClearChain(objects, a, d, name) ==
    \A j \in 1 .. Len(Ancestors(objects, d)) :
        LET k == Ancestors(objects, d)[j] IN
        (IsAncestorOrSelf(objects, a, k) /\ k # a) =>
            (HasSlot(objects, k, name) /\ HoldsClear(SlotValue(objects, k, name)))

Returned(objects, k, name) == get_property(objects, k, name)

(***************************************************************************)
(* Properties                                                              *)
(***************************************************************************)
\* C2: readValue applied to the lines written by writeValue(v) returns v,
\* variant and payload, and consumes exactly the lines written - for every
\* value of the universe, the waif reference included.
C2_ValueRoundTrip ==
    /\ pc = "encoded" => ~Failed(werr)
    /\ pc = "decoded" => (~Failed(err) /\ ret = val /\ line = Len(out))

\* C3: after set_property(o, n, Clear), get_property(o, n) returns the value
\* of the nearest ancestor whose slot n is not Clear, and Clear only when
\* there is none.
C3_ClearRestoresInheritance ==
    (last.op = "set_property" /\ IsClearInstance(last.value) /\ ~Failed(err)) =>
        LET g == Returned(db.objects, last.obj_id, last.name)
            want == Inherited(db.objects, last.obj_id, last.name)
        IN  /\ ~Failed(g.err)
            /\ IF HoldsClear(want) THEN HoldsClear(g.ret) ELSE g.ret = want

\* C4: after set_property(A, n, v) with v not Clear, every descendant reached
\* through children that all held Clear in slot n returns v, and every other
\* descendant returns what it returned before.
C4_SetReachesClearDescendants ==
    (last.op = "set_property" /\ ~IsClearInstance(last.value) /\ ~Failed(err)) =>
        \A d \in StoredKeys(before) :
            (IsAncestorOrSelf(before, last.obj_id, d) /\ d # last.obj_id) =>
                LET g == Returned(db.objects, d, last.name) IN
                IF ClearChain(before, last.obj_id, d, last.name)
                THEN ~Failed(g.err) /\ g.ret = last.value
                ELSE g = [Returned(before, d, last.name) EXCEPT !.objects = db.objects]

\* the object, from k upwards, whose own propnames list name
Definers(objects, k, name) ==
    {a \in StoredKeys(objects) :
        /\ IsAncestorOrSelf(objects, a, k)
        /\ ListIndex(ObjGet(objects, a).propnames, name) # -1}

\* C5: after a successful rename_property(o, old, new) the name is changed in
\* the object that defines old, at the position of old; no propdefs change;
\* o and every descendant of the defining object return under new what they
\* returned under old, and old no longer resolves.
C5_RenameCascade ==
    (last.op = "rename_property" /\ ~Failed(err)) =>
        \A a \in Definers(before, last.obj_id, last.name) :
            /\ ObjGet(db.objects, a).propnames
                   [ListIndex(ObjGet(before, a).propnames, last.name) + 1] = last.value
            /\ \A k \in StoredKeys(before) :
                   ObjGet(db.objects, k).propdefs = ObjGet(before, k).propdefs
            /\ \A d \in StoredKeys(before) :
                   (IsAncestorOrSelf(before, a, d)) =>
                       /\ Returned(db.objects, d, last.value).ret
                              = Returned(before, d, last.name).ret
                       /\ ~Failed(Returned(db.objects, d, last.value).err)
                       /\ Failed(Returned(db.objects, d, last.name).err)

\* the fields of a database that the round trip is about
SameDatabase(a, b) ==
    /\ a.players = b.players
    /\ a.finalizations = b.finalizations
    /\ a.clocks = b.clocks
    /\ a.queuedTasks = b.queuedTasks
    /\ a.suspendedTasks = b.suspendedTasks
    /\ a.interruptedTasks = b.interruptedTasks
    /\ a.connections = b.connections
    /\ a.objects = b.objects
    /\ a.waifs = b.waifs

FirstLine == IF Len(file) >= 1 THEN file[1] ELSE <<>>

\* C6: load reads the first line only and goes on with the v4 grammar exactly
\* when its version integer is 4, with the v17 grammar exactly when it is 17,
\* db.version being that integer; a first line that does not match the version
\* template fails with "Invalid version string", any other integer fails with
\* "Unknown db version", both at line 1, and no database is returned.
C6_VersionDetection ==
    [][pc = "start" =>
         /\ line' = 1
         /\ IF ~versionRe(FirstLine)
            THEN /\ pc' = "failed"
                 /\ err' = [kind |-> "ParseError", msg |-> "Invalid version string", line |-> 1]
            ELSE IF IntOfTok(FirstLine[6]) = 4
            THEN pc' = "parse_v4" /\ ~Failed(err') /\ db'.version = IntV(4)
            ELSE IF IntOfTok(FirstLine[6]) = 17
            THEN pc' = "parse_v17" /\ ~Failed(err') /\ db'.version = IntV(17)
            ELSE /\ pc' = "failed"
                 /\ err' = [kind |-> "ParseError", msg |-> "Unknown db version", line |-> 1]
    ]_vars

\* C6, reached: a file of several lines whose version is neither 4 nor 17 has
\* failed with "Unknown db version" after its first line
C6_Witness ==
    /\ pc = "failed"
    /\ err.msg = "Unknown db version"
    /\ line = 1
    /\ Len(file) > 1
    /\ versionRe(FirstLine)

\* C7: every failure of a load is a parse error that carries the reader's
\* line number, the number of lines consumed.
C7_Diagnostics ==
    pc = "failed" => (err.kind = "ParseError" /\ err.line = line)

RECURSIVE WaifRefs(_)
WaifRefs(v) ==
    IF v.t = "WaifReference" THEN {v.i}
    ELSE IF v.t \in {"list", "dict"} THEN UNION {WaifRefs(v.xs[j]) : j \in 1 .. Len(v.xs)}
    ELSE {}
\* the keys of db.waifs
WaifKeys(d) == {d.waifs[j].index : j \in 1 .. Len(d.waifs)}

TaskVMs(d) ==
    [j \in 1 .. Len(d.suspendedTasks) |-> d.suspendedTasks[j].vm]
        \o [j \in 1 .. Len(d.interruptedTasks) |-> d.interruptedTasks[j].vm]
\* the number of activation frames in the text written: each starts with the
\* language version line
FramesWritten(f) == Cardinality({j \in 1 .. Len(f) : f[j] = <<"language", "version", "17">>})
RECURSIVE StackTotal(_, _)
StackTotal(vms, n) == IF n > Len(vms) THEN 0 ELSE Len(vms[n].stack) + StackTotal(vms, n + 1)

\* C10: every VM of a suspended or interrupted task of a loaded database has
\* len(vm.stack) = vm.top + 1, whatever integer top the header gave, and dump
\* writes len(vm.stack) activation frames for it.
C10_VMStack ==
    /\ pc \in {"loaded", "dumped"} =>
           \A j \in 1 .. Len(TaskVMs(db)) :
               Len(TaskVMs(db)[j].stack) = TaskVMs(db)[j].top.i + 1
    /\ pc = "dumped" => FramesWritten(out) = StackTotal(TaskVMs(db), 1)

\* C11: every object with at most one parent of a loaded database has as many
\* propdefs as there are names along its parent chain, root first, its own
\* propnames included; a block declaring another count does not load.
C11_PropdefCount ==
    pc = "loaded" =>
        \A j \in 1 .. Len(db.objects) :
            Len(db.objects[j].obj.parents.xs) <= 1 =>
                Len(db.objects[j].obj.propdefs) = Len(AllNames(db.objects, db.objects[j].key))

\* the positions in the text f of the lines that are the verb key #k:i
KeyLines(f, k, i) == {j \in 1 .. Len(f) : f[j] = <<"#", FmtInt(k), ":", FmtInt(i)>>}
\* the positions of all lines that have the form of a verb key
AllKeyLines(f) == {j \in 1 .. Len(f) : Len(f[j]) = 4 /\ f[j][1] = "#" /\ f[j][3] = ":"}
\* the code block at position j of f is the lines of code, then "."
BlockIs(f, j, code) ==
    /\ j + Len(code.xs) + 1 <= Len(f)
    /\ \A n \in 1 .. Len(code.xs) : f[j + n] = code.xs[n].s
    /\ f[j + Len(code.xs) + 1] = <<".">>
\* the (object, position from 0) pairs of the verbs of d that have code
Coded(d) ==
    LET slots == UNION {{<<p, i>> : i \in 1 .. Len(d.objects[p].obj.verbs)} :
                           p \in 1 .. Len(d.objects)}
    IN  {<<d.objects[s[1]].obj.id.i, s[2] - 1>> :
            s \in {t \in slots : d.objects[t[1]].obj.verbs[t[2]].code # NoneV}}

\* C12: for every object K and position i whose verb has code, the text dumped
\* holds exactly one block keyed #K:i, with that verb's code, and no other
\* key; the reload attaches the code to the verb at position i of K.
C12_VerbKeys ==
    /\ (pc = "dumped" /\ phase = 1) =>
           /\ \A q \in Coded(db) :
                  /\ Cardinality(KeyLines(out, q[1], q[2])) = 1
                  /\ \A j \in KeyLines(out, q[1], q[2]) :
                         BlockIs(out, j, ObjGet(db.objects, IntV(q[1])).verbs[q[2] + 1].code)
           /\ Cardinality(AllKeyLines(out)) = Cardinality(Coded(db))
    /\ (pc = "dump_failed" /\ phase = 1) => Coded(db) = {}
    /\ (phase = 2 /\ Coded(db1) # {}) =>
           /\ pc # "failed"
           /\ pc = "loaded" =>
                  \A q \in Coded(db1) :
                      /\ HasKey(db.objects, IntV(q[1]))
                      /\ q[2] + 1 <= Len(ObjGet(db.objects, IntV(q[1])).verbs)
                      /\ ObjGet(db.objects, IntV(q[1])).verbs[q[2] + 1].code
                             = ObjGet(db1.objects, IntV(q[1])).verbs[q[2] + 1].code

\* the sections in the order stated for each version
Order4 ==
    <<"total_objects", "total_verbs", "dummy", "players", "objects", "verbs", "clocks",
      "task queue", "suspended tasks", "connections">>
Order17 ==
    <<"players", "pending", "clocks", "task queue", "suspended tasks", "interrupted tasks",
      "connections", "total_objects", "objects", "anonymous objects", "total_verbs", "verbs">>

\* one section read by the reader r
Section(name, r) ==
    LET r1 == readInt(r) IN
    IF Failed(r.err) THEN r
    ELSE CASE name = "total_objects" ->
                IF Failed(r1.err) THEN r1 ELSE [r1 EXCEPT !.db.total_objects = r1.val.i]
           [] name = "total_verbs" ->
                IF Failed(r1.err) THEN r1 ELSE [r1 EXCEPT !.db.total_verbs = r1.val.i]
           [] name = "dummy" -> readString(r)
           [] name = "players" -> readPlayers(r)
           [] name = "pending" -> readPending(r)
           [] name = "clocks" -> readClocks(r)
           [] name = "task queue" -> readTaskQueue(r)
           [] name = "suspended tasks" -> readSuspendedTasks(r)
           [] name = "interrupted tasks" -> readInterruptedTasks(r)
           [] name = "connections" -> readConnections(r)
           [] name = "objects" -> readObjects(r)
           [] name = "anonymous objects" -> readAnonObjects(r)
           [] name = "verbs" -> readVerbs(r)

\* the reader after the first n sections of order, each begun where the one
\* before it stopped
RECURSIVE InOrder(_, _, _)
InOrder(order, n, r) ==
    IF n = 0 THEN r ELSE Section(order[n], InOrder(order, n - 1, r))

\* the number of items section name has stored in the database d
Stored(name, d) ==
    CASE name = "players" -> Len(d.players)
      [] name = "pending" -> Len(d.finalizations)
      [] name = "clocks" -> Len(d.clocks)
      [] name = "task queue" -> Len(d.queuedTasks)
      [] name = "suspended tasks" -> Len(d.suspendedTasks)
      [] name = "interrupted tasks" -> Len(d.interruptedTasks)
      [] name = "connections" -> Len(d.connections)
Counted == {"players", "pending", "clocks", "task queue", "suspended tasks",
            "interrupted tasks", "connections"}
\* the count declared by the first line of the section that begins at reader r
Declared(r) == IntOfTok(r.f[r.line + 1][1])

\* the load goes through the sections of order, one after the other
Ordered(order) ==
    LET r == Reader(file, line, db)
        end == InOrder(order, Len(order), r)
    IN  /\ err' = end.err
        /\ line' = end.line
        /\ ~Failed(end.err) =>
               /\ db' = end.db
               /\ \A n \in 1 .. Len(order) :
                      (order[n] \in Counted /\ Declared(InOrder(order, n - 1, r)) >= 0) =>
                          Stored(order[n], db') = Declared(InOrder(order, n - 1, r))

SuspendedAt(f) ==
    IF \E j \in 1 .. Len(f) : f[j] = <<"1", "suspended", "tasks">>
    THEN CHOOSE j \in 1 .. Len(f) : f[j] = <<"1", "suspended", "tasks">>
    ELSE 0
\* the header of the suspended task of f, <<>> when f ends before it
TaskHeader(f) ==
    IF SuspendedAt(f) > 0 /\ SuspendedAt(f) < Len(f) THEN f[SuspendedAt(f) + 1] ELSE <<>>
IsHeader(s, n) == Len(s) = n /\ \A j \in 1 .. n : IsIntTok(s[j])
\* the type tag of the value v in the file format
TagOf(v) ==
    CASE v.t = "int" -> INT [] v.t = "str" -> STR [] v.t = "ObjNum" -> OBJ
      [] v.t = "float" -> FLOAT [] v.t = "bool" -> BOOL [] v.t = "list" -> LIST
      [] v.t = "dict" -> MAP [] v.t = "NoneType" -> NONE [] v.t = "_Catch" -> CATCH
      [] v.t = "Clear" -> CLEAR [] v.t = "Err" -> ERR [] v.t = "Anon" -> ANON
      [] OTHER -> -1
\* the lines dump writes for the value v: its tag line, then its body
ValueLines(v) == writeValue(Writer(MooDatabase, <<>>), v).out

\* C14: the reader takes the suspended task header with two integers (the
\* task then has no value and the VM starts on the next line) and with three
\* (one value of that tag is read, no tag line, then the VM); dump writes
\* the two-integer header for a task without a value and, for a task with a
\* value, the header with the value's tag followed by the value's body.
C14_SuspendedHeader ==
    /\ (phase = 1 /\ pc = "failed" /\ line = SuspendedAt(file) + 1 /\ SuspendedAt(file) > 0) =>
           ~(IsHeader(TaskHeader(file), 2) \/ IsHeader(TaskHeader(file), 3))
    /\ (phase = 1 /\ pc = "loaded" /\ Len(db.suspendedTasks) = 1) =>
           /\ IsHeader(TaskHeader(file), 2) => db.suspendedTasks[1].value = NoneV
           /\ IsHeader(TaskHeader(file), 3) =>
                  TagOf(db.suspendedTasks[1].value) = IntOfTok(TaskHeader(file)[3])
    /\ (phase = 1 /\ pc = "dumped" /\ Len(db.suspendedTasks) = 1) =>
           LET task == db.suspendedTasks[1]
               ids == <<FmtInt(task.start_time.i), FmtInt(task.id.i)>>
           IN  /\ SuspendedAt(out) > 0
               /\ IF task.value = NoneV THEN TaskHeader(out) = ids
                  ELSE /\ TaskHeader(out) = ids \o <<FmtInt(TagOf(task.value))>>
                       /\ Tail(ValueLines(task.value))
                              = SubSeq(out, SuspendedAt(out) + 2,
                                       SuspendedAt(out) + Len(ValueLines(task.value)))

\* C15: dump writes the header line of db.version (4 or 17), and the load of
\* the text dumped finds the version of the database dumped.
C15_WriterFollowsVersion ==
    /\ (phase = 1 /\ pc = "dumped") => out[1] = Hdr(FmtInt(db.version.i))[1]
    /\ (phase = 2 /\ pc \in {"parse_v4", "parse_v17", "loaded"}) => db.version = db1.version

\* the objects of d that are marked anon
AnonObjects(d) == {j \in 1 .. Len(d.objects) : d.objects[j].obj.anon}
\* the verbs of d that have code: one code block is written for each
CodedVerbs(d) == SelectSeq(all_verbs(d.objects, 1), LAMBDA verb : verb.code # NoneV)

\* C16: when the text dumped from a database with k anonymous objects is
\* loaded, readAnonObjects ends on the 0 that closes the section: k objects
\* are marked anon and total_verbs is the number of code blocks written, for
\* k = 0 and for k > 0.
C16_AnonSectionAlignment ==
    (phase = 2 /\ pc \in {"loaded", "failed"}) =>
        /\ Cardinality(AnonObjects(db)) = Cardinality(AnonObjects(db1))
        /\ db.total_verbs = Len(CodedVerbs(db1))


\* C17: writeValue raises on a Str value that holds an LF; every Str value it
\* does write occupies one line after the tag line, and readValue gives the
\* same string back from the lines written.
C17_LineBreakGuard ==
    /\ (pc = "encoded" /\ val.t = "str") =>
           IF \E j \in 1 .. Len(val.s) : val.s[j] = LF THEN Failed(werr)
           ELSE ~Failed(werr) /\ Len(out) = 2
    /\ (pc = "decoded" /\ val.t = "str") => (~Failed(err) /\ ret = val /\ line = Len(out))

\* the position, from 1, of name among the slots of the object stored under k
SlotIndex(objects, k, name) == ListIndex(AllNames(objects, k), name) + 1

\* C18: set_property(o, n, v) writes, and get_property(o, n) reads, the
\* propdef of o at the position of n in the names of o's ancestors, root
\* first, followed by o's own: the call succeeds, the slot at that position
\* takes v and no other slot of o changes; a value that is not Clear in that
\* slot is the one returned.
C18_PositionalResolution ==
    /\ (last.op = "set_property" /\ HasKey(before, last.obj_id)
            /\ HasSlot(before, last.obj_id, last.name)) =>
           LET i == SlotIndex(before, last.obj_id, last.name)
               old == ObjGet(before, last.obj_id).propdefs
               new == ObjGet(db.objects, last.obj_id).propdefs
           IN  /\ ~Failed(err)
               /\ Len(new) = Len(old)
               /\ IF IsClearInstance(last.value) THEN HoldsClear(new[i].value)
                  ELSE new[i].value = last.value
               /\ \A p \in 1 .. Len(old) : p # i => new[p] = old[p]
    /\ (last.op = "get_property" /\ HasKey(db.objects, last.obj_id)
            /\ HasSlot(db.objects, last.obj_id, last.name)
            /\ ~HoldsClear(SlotValue(db.objects, last.obj_id, last.name))) =>
           (~Failed(err) /\ ret = SlotValue(db.objects, last.obj_id, last.name))


WaifHeaders(f, flag) ==
    {j \in 2 .. Len(f) : f[j - 1] = <<FmtInt(WAIF)>> /\ Len(f[j]) = 2 /\ f[j][1] = flag
                            /\ IsIntTok(f[j][2])}
\* the property values of a waif body from line p + 1 of f on, and the number
\* of lines consumed when the terminator line has been read
RECURSIVE WaifBody(_, _, _)
WaifBody(f, p, props) ==
    IF p + 1 <= Len(f) /\ IsIntLine(f[p + 1])
          /\ IntOfTok(f[p + 1][1]) >= 0 /\ IntOfTok(f[p + 1][1]) < 96
    THEN LET r == readValue(Reader(f, p + 1, MooDatabase), NoneV)
         IN  WaifBody(f, r.line, Append(props, r.val))
    ELSE [props |-> props, end |-> p + 2]
\* the waif stored under index
WaifGet(d, index) == (CHOOSE q \in 1 .. Len(d.waifs) : d.waifs[q].index = index)

\* C20: the load of a file with a class-defining waif (class, owner and
\* propdefs_length on the three lines after the header) does not fail inside
\* the waif; past its terminator line db.waifs holds, under its index, the
\* class, the owner and the values read for the in-range indices, in file
\* order.  A reference-only waif takes the header and one terminator line.
C20_WaifBody ==
    /\ \A j \in WaifHeaders(file, "c") :
           (/\ phase = 1 /\ pc \in {"loaded", "failed"} /\ line >= j
            /\ j + 3 <= Len(file)
            /\ \A q \in 1 .. 3 : IsIntLine(file[j + q])) =>
               LET body == WaifBody(file, j + 3, <<>>)
                   index == IntOfTok(file[j][2])
               IN  /\ line >= body.end
                   /\ index \in WaifKeys(db)
                   /\ db.waifs[WaifGet(db, index)].waif.waif_class.i = IntOfTok(file[j + 1][1])
                   /\ db.waifs[WaifGet(db, index)].waif.owner.i = IntOfTok(file[j + 2][1])
                   /\ db.waifs[WaifGet(db, index)].waif.props = body.props
    /\ \A j \in WaifHeaders(file, "r") :
           (phase = 1 /\ pc \in {"loaded", "failed"} /\ line >= j) =>
               /\ line >= j + 1
               /\ pc = "loaded" =>
                      \E q \in 1 .. Len(db.finalizations) :
                          db.finalizations[q] = WaifReference(IntOfTok(file[j][2]))

\* C21: the load of every finite file ends, with a database or with an
\* exception; in particular the loop of readCode ends when the file ends
\* before a line ".".  (The outcome NonTermination stands for a loop of the
\* reader that no input line can end any more.)
C21_LoadTerminates ==
    pc = "failed" => err.kind # "NonTermination"

\* C22: when set_property(A, n, v1) and then set_property(A, n, v2), both
\* with values that are not Clear, succeed one after the other, every
\* descendant of A that inherited n from A before the first call (Clear in
\* its slot and in the slots between) returns v2, the last value set.
C22_InheritanceStaysLive ==
    [][(/\ last.op = "set_property" /\ ~IsClearInstance(last.value) /\ ~Failed(err)
        /\ last'.op = "set_property" /\ ~IsClearInstance(last'.value) /\ ~Failed(err')
        /\ last'.obj_id = last.obj_id /\ last'.name = last.name) =>
           \A d \in StoredKeys(before) :
               (/\ IsAncestorOrSelf(before, last.obj_id, d) /\ d # last.obj_id
                /\ ClearChain(before, last.obj_id, d, last.name)) =>
                   /\ ~Failed(Returned(db'.objects, d, last.name).err)
                   /\ Returned(db'.objects, d, last.name).ret = last'.value]_vars

\* no name occurs twice among the propnames of an object and its ancestors
UniqueNames(objects) ==
    \A k \in StoredKeys(objects) :
        \A i, j \in 1 .. Len(AllNames(objects, k)) :
            PyEq(AllNames(objects, k)[i], AllNames(objects, k)[j]) => i = j
\* name is among the propnames of k, of an ancestor or of a descendant of k
DefinedAround(objects, k, name) ==
    \E a \in StoredKeys(objects) :
        /\ IsAncestorOrSelf(objects, a, k) \/ IsAncestorOrSelf(objects, k, a)
        /\ ListIndex(ObjGet(objects, a).propnames, name) # -1

\* C23: a rename_property that returns leaves no name twice along any
\* ancestor chain when there was none before, and a rename to a name that
\* the object, an ancestor or a descendant of it defines raises.
C23_RenameKeepsNamesUnique ==
    [][(last'.op = "rename_property" /\ nops' = nops + 1) =>
           /\ (UniqueNames(db.objects) /\ ~Failed(err')) => UniqueNames(db'.objects)
           /\ (HasKey(db.objects, last'.obj_id)
                 /\ DefinedAround(db.objects, last'.obj_id, last'.value)) => Failed(err')]_vars

\* C24: when set_property or rename_property raises, the propnames and the
\* propdefs of every object are those of before the call.
C24_FailedCallsChangeNothing ==
    (pc = "api" /\ last.op \in {"set_property", "rename_property"} /\ Failed(err)) =>
        /\ StoredKeys(db.objects) = StoredKeys(before)
        /\ \A k \in StoredKeys(before) :
               /\ ObjGet(db.objects, k).propnames = ObjGet(before, k).propnames
               /\ ObjGet(db.objects, k).propdefs = ObjGet(before, k).propdefs

\* the position in the text f of the count line of a section of one queued
\* task, 0 when f has none
QueuedAt(f) ==
    IF \E j \in 1 .. Len(f) : f[j] = <<"1", "queued", "tasks">>
    THEN CHOOSE j \in 1 .. Len(f) : f[j] = <<"1", "queued", "tasks">>
    ELSE 0
\* the activation header of the queued task of f: the first line of nine
\* integers after the count line, <<>> when f has none
ActivationHeader(f) ==
    LET at == {p \in QueuedAt(f) + 1 .. Len(f) : activationHeaderRe(f[p])} IN
    IF QueuedAt(f) = 0 \/ at = {} THEN <<>>
    ELSE f[CHOOSE p \in at : \A q \in at : p <= q]

\* C25: the activation of a loaded queued task has debug true exactly when
\* the ninth integer of its header line is not zero, and the header line
\* that dump writes for it carries the same debug column and the same four
\* unused columns (the second, third, fifth and eighth) as the line read.
C25_ActivationDebug ==
    /\ (phase = 1 /\ pc = "loaded" /\ Len(db.queuedTasks) = 1) =>
           /\ ActivationHeader(file) # <<>>
           /\ db.queuedTasks[1].activation.debug
                  = BoolV(IntOfTok(ActivationHeader(file)[9]) # 0)
    /\ (phase = 1 /\ pc = "dumped" /\ Len(db.queuedTasks) = 1) =>
           /\ ActivationHeader(out) # <<>>
           /\ \A c \in {2, 3, 5, 8, 9} :
                  IntOfTok(ActivationHeader(out)[c]) = IntOfTok(ActivationHeader(file)[c])

====
